---- MODULE Spec2Model ----
(***************************************************************************)
(* Verification model of steam-trend-analyzer: the tag recommender         *)
(* (backend/app/recommender.py), the combination aggregator and summarizer *)
(* (scripts/build_tag_combo_summary.py, scripts/build_tag_risk_summary.py) *)
(* the archetype endpoints and GET /trend (backend/app/main.py), the        *)
(* reasons (backend/app/recommender.py), the storage layer and its caches  *)
(* (backend/app/storage.py), the response store                            *)
(* (backend/app/response_store.py), the mock predictor                     *)
(* (backend/app/ml_mock.py), the ingest (scripts/ingest_csv_to_parquet.py) *)
(* and the clusterer (scripts/cluster_tag_combinations.py).                *)
(*                                                                         *)
(* Real numbers are modelled exactly, as scaled integers:                  *)
(*   penalties, bonus, weights  in hundredths      (0.35 -> 35)            *)
(*   success rate, trend, ln    in millionths      (0.3  -> 300000)        *)
(*   raw scores                 in units of 10^-8                          *)
(*   rounded scores and rates   in ten-thousandths                         *)
(*   trend delta, publisher dep in thousandths                             *)
(* Strings are sequences of one-character strings, so that lower(),        *)
(* strip(), join() and the ordering of strings are computed, not assumed.  *)
(***************************************************************************)
EXTENDS Integers, Sequences, FiniteSets, TLC

VARIABLES
    penalty_call,          \* one call of compute_complexity_penalty: arguments, return
    score_call,            \* two calls of compute_score: arguments, returns
    rec_call,              \* one call of recommend_tags: arguments, tables, return
    key_call,              \* two titles' tag lists and the combination keys of each
    n_games,               \* build_tag_combo_summary: len(df)
    idx,                   \* build_tag_combo_summary: rows of df scanned so far
    agg,                   \* build_tag_combo_summary: key -> accumulated counters
    agg_pc,                \* build_tag_combo_summary: position in main()
    combo_summary,         \* the persisted tag_combo_summary artifact
    arch_call,             \* one call of get_market_archetypes: table, thresholds, return
    drill_call,            \* one call of get_market_archetype: table, cluster id, top_n, return
    reasons_call,          \* one call of generate_reasons: arguments, return
    files,                 \* the artifacts on disk: name -> whether it exists
    cache,                 \* storage.py: the module-level caches, loader -> value or None
    held,                  \* the object a caller received from a loader and may mutate
    last_op,               \* the outcome of the latest loader call or pipeline stage run
    uncalled_since_clear,  \* the loaders not called since the latest clear_cache()
    ingest_call,           \* one run of ingest_csv_to_parquet over a table of cells
    cluster_call,          \* one run of cluster_tag_combinations: summary, labels, output
    tag_call,              \* one title: its cell of the tags column, its tags, its keys
    scan_call,             \* one title scanned into an aggregate: row, counters before and after
    mock_call,             \* two calls of mock_predict_tags: arguments, archetypes, returns
    rs_lock,               \* response_store: the thread that holds _lock, or ""
    rs_next_id,            \* response_store: _next_id
    rs_store,              \* response_store: _store, id -> record
    rs_thr,                \* the threads that call save_trend_response / get_trend_response
    rs_log,                \* the saves that have returned: what each was given, and its id
    rs_ops,                \* the calls of the response store begun so far
    trend_req,             \* the GET /trend requests: position, status, response id
    rc_thr,                \* the threads inside a loader or clear_cache(): position, locals, outcome
    rc_ops                 \* the calls of the storage layer begun by those threads

aggVars == <<n_games, idx, agg, agg_pc, combo_summary>>
storeVars == <<files, cache, held, last_op, uncalled_since_clear>>
respVars == <<rs_lock, rs_next_id, rs_store, rs_thr, rs_log, rs_ops, trend_req>>
raceVars == <<rc_thr, rc_ops>>

vars ==
    <<penalty_call, score_call, rec_call, key_call,
      aggVars, arch_call, drill_call, reasons_call,
      storeVars, ingest_call, cluster_call, tag_call,
      scan_call, mock_call, respVars, raceVars>>

\* what each component leaves alone
exceptPenalty ==
    <<score_call, rec_call, key_call, aggVars, arch_call,
      drill_call, reasons_call, storeVars, ingest_call, cluster_call,
      tag_call, scan_call, mock_call, respVars, raceVars>>
exceptScore ==
    <<penalty_call, rec_call, key_call, aggVars, arch_call,
      drill_call, reasons_call, storeVars, ingest_call, cluster_call,
      tag_call, scan_call, mock_call, respVars, raceVars>>
exceptRec ==
    <<penalty_call, score_call, key_call, aggVars, arch_call,
      drill_call, reasons_call, storeVars, ingest_call, cluster_call,
      tag_call, scan_call, mock_call, respVars, raceVars>>
exceptKeys ==
    <<penalty_call, score_call, rec_call, aggVars, arch_call,
      drill_call, reasons_call, storeVars, ingest_call, cluster_call,
      tag_call, scan_call, mock_call, respVars, raceVars>>
exceptAgg ==
    <<penalty_call, score_call, rec_call, key_call, arch_call,
      drill_call, reasons_call, storeVars, ingest_call, cluster_call,
      tag_call, scan_call, mock_call, respVars, raceVars>>
exceptArch ==
    <<penalty_call, score_call, rec_call, key_call, aggVars,
      drill_call, reasons_call, storeVars, ingest_call, cluster_call,
      tag_call, scan_call, mock_call, respVars, raceVars>>
exceptDrill ==
    <<penalty_call, score_call, rec_call, key_call, aggVars,
      arch_call, reasons_call, storeVars, ingest_call, cluster_call,
      tag_call, scan_call, mock_call, respVars, raceVars>>
exceptReasons ==
    <<penalty_call, score_call, rec_call, key_call, aggVars,
      arch_call, drill_call, storeVars, ingest_call, cluster_call,
      tag_call, scan_call, mock_call, respVars, raceVars>>
exceptStore ==
    <<penalty_call, score_call, rec_call, key_call, aggVars,
      arch_call, drill_call, reasons_call, ingest_call, cluster_call,
      tag_call, scan_call, mock_call, respVars, raceVars>>
exceptIngest ==
    <<penalty_call, score_call, rec_call, key_call, aggVars,
      arch_call, drill_call, reasons_call, storeVars, cluster_call,
      tag_call, scan_call, mock_call, respVars, raceVars>>
exceptCluster ==
    <<penalty_call, score_call, rec_call, key_call, aggVars,
      arch_call, drill_call, reasons_call, storeVars, ingest_call,
      tag_call, scan_call, mock_call, respVars, raceVars>>
exceptMock ==
    <<penalty_call, score_call, rec_call, key_call, aggVars,
      arch_call, drill_call, reasons_call, storeVars, ingest_call,
      cluster_call, tag_call, scan_call, respVars, raceVars>>
exceptTags ==
    <<penalty_call, score_call, rec_call, key_call, aggVars,
      arch_call, drill_call, reasons_call, storeVars, ingest_call,
      cluster_call, scan_call, mock_call, respVars, raceVars>>
exceptScan ==
    <<penalty_call, score_call, rec_call, key_call, aggVars,
      arch_call, drill_call, reasons_call, storeVars, ingest_call,
      cluster_call, tag_call, mock_call, respVars, raceVars>>
exceptResp ==
    <<penalty_call, score_call, rec_call, key_call, aggVars,
      arch_call, drill_call, reasons_call, storeVars, ingest_call,
      cluster_call, tag_call, scan_call, mock_call, raceVars>>
exceptRespStore ==
    <<penalty_call, score_call, rec_call, key_call, aggVars,
      arch_call, drill_call, reasons_call, ingest_call, cluster_call,
      tag_call, scan_call, mock_call, raceVars>>
exceptRaceStore ==
    <<penalty_call, score_call, rec_call, key_call, aggVars,
      arch_call, drill_call, reasons_call, ingest_call, cluster_call,
      tag_call, scan_call, mock_call, respVars>>

Max(a, b) == IF a >= b THEN a ELSE b
Min(a, b) == IF a <= b THEN a ELSE b

(***************************************************************************)
(* Strings                                                                 *)
(***************************************************************************)
\* str.lower() on one character of the alphabet the model uses
LowerChar(c) ==
    CASE c = "R" -> "r"
      [] c = "P" -> "p"
      [] c = "G" -> "g"
      [] c = "S" -> "s"
      [] c = "I" -> "i"
      [] c = "M" -> "m"
      [] c = "T" -> "t"
      [] OTHER   -> c

\* str.lower()
StrLower(s) == [i \in 1..Len(s) |-> LowerChar(s[i])]

IsSpace(c) == c = " "

RECURSIVE LStrip(_)
LStrip(s) == IF s # <<>> /\ IsSpace(Head(s)) THEN LStrip(Tail(s)) ELSE s

RECURSIVE RStrip(_)
RStrip(s) ==
    IF s # <<>> /\ IsSpace(s[Len(s)]) THEN RStrip(SubSeq(s, 1, Len(s) - 1)) ELSE s

\* str.strip()
StrStrip(s) == RStrip(LStrip(s))

\* code point of a character, for the ordering of strings
CharCode(c) ==
    CASE c = " " -> 32
      [] c = "," -> 44
      [] c = "0" -> 48
      [] c = "1" -> 49
      [] c = "5" -> 53
      [] c = "G" -> 71
      [] c = "I" -> 73
      [] c = "M" -> 77
      [] c = "P" -> 80
      [] c = "R" -> 82
      [] c = "S" -> 83
      [] c = "T" -> 84
      [] c = "a" -> 97
      [] c = "g" -> 103
      [] c = "i" -> 105
      [] c = "m" -> 109
      [] c = "n" -> 110
      [] c = "o" -> 111
      [] c = "p" -> 112
      [] c = "r" -> 114
      [] c = "s" -> 115
      [] c = "t" -> 116
      [] c = "v" -> 118
      [] OTHER   -> 0

\* s < t in Python's ordering of str (lexicographic by code point)
RECURSIVE StrLess(_, _)
StrLess(s, t) ==
    IF t = <<>> THEN FALSE
    ELSE IF s = <<>> THEN TRUE
    ELSE IF CharCode(Head(s)) # CharCode(Head(t))
         THEN CharCode(Head(s)) < CharCode(Head(t))
    ELSE StrLess(Tail(s), Tail(t))

\* sep.join(parts)
RECURSIVE StrJoin(_, _)
StrJoin(sep, parts) ==
    IF parts = <<>> THEN <<>>
    ELSE IF Len(parts) = 1 THEN parts[1]
    ELSE parts[1] \o sep \o StrJoin(sep, Tail(parts))

\* the elements of a sequence
Range(s) == {s[i] : i \in 1..Len(s)}

(***************************************************************************)
(* compute_complexity_penalty                                              *)
(***************************************************************************)
MaxTeam == 7
MaxComplexity == 6

\* a mis-banded variant: the medium band's rate applied to large teams too
compute_complexity_penalty_nolarge(team_size, complexity_score) ==
    IF team_size <= 1 THEN 35 * Max(0, complexity_score - 2)
    ELSE IF 2 <= team_size /\ team_size <= 3 THEN 22 * Max(0, complexity_score - 3)
    ELSE 12 * Max(0, complexity_score - 4)

\* the bands in reverse: the solo rate given to teams of 4 or 5 and theirs to solo
compute_complexity_penalty_reversed(team_size, complexity_score) ==
    IF team_size <= 1 THEN 12 * Max(0, complexity_score - 4)
    ELSE IF 2 <= team_size /\ team_size <= 3 THEN 22 * Max(0, complexity_score - 3)
    ELSE IF 4 <= team_size /\ team_size <= 5 THEN 35 * Max(0, complexity_score - 2)
    ELSE 0

\* penalty in hundredths
compute_complexity_penalty(team_size, complexity_score) ==
    IF team_size <= 1 THEN 35 * Max(0, complexity_score - 2)
    ELSE IF 2 <= team_size /\ team_size <= 3 THEN 22 * Max(0, complexity_score - 3)
    ELSE IF 4 <= team_size /\ team_size <= 5 THEN 12 * Max(0, complexity_score - 4)
    ELSE 0

PenaltyInit ==
    penalty_call \in [team_size : 0..MaxTeam, complexity_score : 0..MaxComplexity,
                      done : {FALSE}, ret : {0}]

PenaltyIdle == penalty_call = [team_size |-> 0, complexity_score |-> 0,
                               done |-> FALSE, ret |-> 0]

CallPenalty ==
    /\ ~penalty_call.done
    /\ penalty_call' = [penalty_call EXCEPT
           !.done = TRUE,
           !.ret = compute_complexity_penalty(penalty_call.team_size,
                                              penalty_call.complexity_score)]
    /\ UNCHANGED exceptPenalty

C12_PenaltyMonotoneInTeam ==
    penalty_call.done =>
        \A s2 \in penalty_call.team_size..(MaxTeam + 1) :
            compute_complexity_penalty(s2, penalty_call.complexity_score)
              <= penalty_call.ret

C12_Witness ==
    /\ penalty_call.done
    /\ penalty_call.team_size = 1
    /\ penalty_call.complexity_score = 5
    /\ compute_complexity_penalty(3, 5) < penalty_call.ret
    /\ compute_complexity_penalty(5, 5) < compute_complexity_penalty(3, 5)

(***************************************************************************)
(* compute_score                                                           *)
(***************************************************************************)
W_SUCCESS == 100
W_TREND == 70
W_SATURATION == 15
DEFAULT_COMPLEXITY == 3
PREFER_BONUS == 5

\* round(n / d) to the nearest integer, ties to even (Python's round), d > 0
RoundHalfEven(n, d) ==
    LET q == n \div d
        r == n % d
    IN  IF 2 * r < d THEN q
        ELSE IF 2 * r > d THEN q + 1
        ELSE IF q % 2 = 0 THEN q ELSE q + 1

\* math.log(n) in millionths, n in 1..12
LnTable == <<0, 693147, 1098612, 1386294, 1609438, 1791759, 1945910, 2079442,
             2197225, 2302585, 2397895, 2484907>>
math_log(n) == LnTable[n]

\* the trend term subtracted instead of added
compute_score_trend_sign(recent_success_rate_24m, trend_score, released_last_6m, complexity_penalty, prefer_bonus) ==
    W_SUCCESS * recent_success_rate_24m
      - W_TREND * trend_score
      - W_SATURATION * math_log(1 + released_last_6m)
      - 1000000 * complexity_penalty
      + 1000000 * prefer_bonus

\* a saturation penalty that grows by ln 2 with every release, not with the logarithm
compute_score_saturation_linear(recent_success_rate_24m, trend_score, released_last_6m, complexity_penalty, prefer_bonus) ==
    W_SUCCESS * recent_success_rate_24m
      + W_TREND * trend_score
      - W_SATURATION * math_log(2) * released_last_6m
      - 1000000 * complexity_penalty
      + 1000000 * prefer_bonus

\* rates and trend in millionths, penalty and bonus in hundredths; the score is
\* in units of 10^-8
compute_score(recent_success_rate_24m, trend_score, released_last_6m, complexity_penalty, prefer_bonus) ==
    LET saturation_penalty == W_SATURATION * math_log(1 + released_last_6m)
    IN  W_SUCCESS * recent_success_rate_24m
          + W_TREND * trend_score
          - saturation_penalty
          - 1000000 * complexity_penalty
          + 1000000 * prefer_bonus

MaxReleased == 2
SuccessRates == {0, 300000, 1000000}
TrendScores == {-100000, 0, 100001}
ScoreArgs ==
    [recent_success_rate_24m : SuccessRates, trend_score : TrendScores,
     released_last_6m : 0..MaxReleased, complexity_penalty : {0, 35},
     prefer_bonus : {0, PREFER_BONUS}]

ScoreOf(a) == compute_score(a.recent_success_rate_24m, a.trend_score,
                            a.released_last_6m, a.complexity_penalty, a.prefer_bonus)

ScoreInit ==
    score_call \in [a : ScoreArgs, b : ScoreArgs, done : {FALSE},
                    ret_a : {0}, ret_b : {0}]

ScoreIdle ==
    LET z == [recent_success_rate_24m |-> 0, trend_score |-> 0, released_last_6m |-> 0,
              complexity_penalty |-> 0, prefer_bonus |-> 0]
    IN  score_call = [a |-> z, b |-> z, done |-> FALSE, ret_a |-> 0, ret_b |-> 0]

CallScore ==
    /\ ~score_call.done
    /\ score_call' = [score_call EXCEPT !.done = TRUE,
                                        !.ret_a = ScoreOf(score_call.a),
                                        !.ret_b = ScoreOf(score_call.b)]
    /\ UNCHANGED exceptScore

\* C8: the score is W_SUCCESS*rate + W_TREND*trend - saturation - complexity penalty
\* + prefer bonus, and with the other inputs fixed it does not decrease when the
\* success rate or the trend score grows.
C8_ScoreMonotone ==
    score_call.done =>
        LET a == score_call.a
            b == score_call.b
        IN  /\ score_call.ret_a + 1000000 * a.complexity_penalty
                 + 15 * LnTable[a.released_last_6m + 1] - 1000000 * a.prefer_bonus
               = 100 * a.recent_success_rate_24m + 70 * a.trend_score
            /\ ( /\ a.recent_success_rate_24m <= b.recent_success_rate_24m
                 /\ a.trend_score <= b.trend_score
                 /\ a.released_last_6m = b.released_last_6m
                 /\ a.complexity_penalty = b.complexity_penalty
                 /\ a.prefer_bonus = b.prefer_bonus )
               => score_call.ret_a <= score_call.ret_b

C8_Witness ==
    /\ score_call.done
    /\ score_call.a.trend_score < score_call.b.trend_score
    /\ score_call.a.recent_success_rate_24m = score_call.b.recent_success_rate_24m
    /\ score_call.a.released_last_6m = score_call.b.released_last_6m
    /\ score_call.a.released_last_6m > 0
    /\ score_call.a.complexity_penalty = score_call.b.complexity_penalty
    /\ score_call.a.prefer_bonus = score_call.b.prefer_bonus
    /\ score_call.ret_a < score_call.ret_b

\* the saturation penalty inside a returned score, in units of 10^-8
SaturationIn(args, ret) ==
    W_SUCCESS * args.recent_success_rate_24m + W_TREND * args.trend_score
      - 1000000 * args.complexity_penalty + 1000000 * args.prefer_bonus - ret

\* the arguments args with k more releases in the last six months
MoreReleased(args, k) == [args EXCEPT !.released_last_6m = @ + k]

\* C13: the saturation penalty is 0 at zero releases, never negative, strictly
\* increasing in released_last_6m with increments that shrink; with the other inputs
\* equal, more releases or a higher complexity penalty give a strictly lower score.
C13_SaturationPenalty ==
    score_call.done =>
        LET a == score_call.a
            b == score_call.b
            sat_a == SaturationIn(a, score_call.ret_a)
            sat_b == SaturationIn(b, score_call.ret_b)
            sat_a1 == SaturationIn(MoreReleased(a, 1), ScoreOf(MoreReleased(a, 1)))
            sat_a2 == SaturationIn(MoreReleased(a, 2), ScoreOf(MoreReleased(a, 2)))
            same_but_released ==
                /\ a.recent_success_rate_24m = b.recent_success_rate_24m
                /\ a.trend_score = b.trend_score
                /\ a.prefer_bonus = b.prefer_bonus
                /\ a.complexity_penalty = b.complexity_penalty
            same_but_penalty ==
                /\ a.recent_success_rate_24m = b.recent_success_rate_24m
                /\ a.trend_score = b.trend_score
                /\ a.prefer_bonus = b.prefer_bonus
                /\ a.released_last_6m = b.released_last_6m
        IN  /\ a.released_last_6m = 0 => sat_a = 0
            /\ sat_a >= 0
            /\ a.released_last_6m < b.released_last_6m => sat_a < sat_b
            /\ sat_a1 - sat_a > sat_a2 - sat_a1
            /\ sat_a2 - sat_a1 > 0
            /\ (same_but_released /\ a.released_last_6m < b.released_last_6m)
                 => score_call.ret_a > score_call.ret_b
            /\ (same_but_penalty /\ a.complexity_penalty < b.complexity_penalty)
                 => score_call.ret_a > score_call.ret_b

C13_Witness ==
    /\ score_call.done
    /\ score_call.a.released_last_6m = 1
    /\ score_call.b.released_last_6m = 2
    /\ score_call.a.recent_success_rate_24m = score_call.b.recent_success_rate_24m
    /\ score_call.a.trend_score = score_call.b.trend_score
    /\ score_call.a.prefer_bonus = score_call.b.prefer_bonus
    /\ score_call.a.complexity_penalty = score_call.b.complexity_penalty
    /\ score_call.ret_a > score_call.ret_b
    /\ SaturationIn(score_call.b, score_call.ret_b)
         < 2 * SaturationIn(score_call.a, score_call.ret_a)

(***************************************************************************)
(* generate_reasons                                                        *)
(***************************************************************************)
\* a trend of exactly 0.10 counted as strong
generate_reasons_trend_inclusive(recent_success_rate_24m, trend_score, released_last_6m, complexity_penalty, team_size, complexity_score) ==
    LET success ==
            IF recent_success_rate_24m >= 300000 THEN <<"High recent success rate">>
            ELSE IF recent_success_rate_24m >= 150000
                 THEN <<"Moderate recent success rate">>
            ELSE <<"Low recent success rate">>
        trend ==
            IF trend_score >= 100000 THEN <<"Strong positive trend">>
            ELSE IF trend_score > 0 THEN <<"Positive trend">>
            ELSE IF trend_score < -100000 THEN <<"Negative trend">>
            ELSE <<>>
        saturation ==
            IF released_last_6m >= 50 THEN <<"High saturation (many recent releases)">>
            ELSE IF released_last_6m >= 20 THEN <<"Moderate saturation">>
            ELSE <<"Low saturation">>
        complexity ==
            IF complexity_penalty > 0
                THEN <<"Penalized for small team vs high complexity">>
            ELSE IF complexity_score >= 4 /\ team_size < 6
                THEN <<"Moderate complexity for team size">>
            ELSE <<"Good complexity match for team size">>
    IN  success \o trend \o saturation \o complexity

\* The penalty remark's text carries team_size and complexity_score; the model
\* keeps the remark and leaves the two numbers out of its text.
generate_reasons(recent_success_rate_24m, trend_score, released_last_6m, complexity_penalty, team_size, complexity_score) ==
    LET success ==
            IF recent_success_rate_24m >= 300000 THEN <<"High recent success rate">>
            ELSE IF recent_success_rate_24m >= 150000
                 THEN <<"Moderate recent success rate">>
            ELSE <<"Low recent success rate">>
        trend ==
            IF trend_score > 100000 THEN <<"Strong positive trend">>
            ELSE IF trend_score > 0 THEN <<"Positive trend">>
            ELSE IF trend_score < -100000 THEN <<"Negative trend">>
            ELSE <<>>
        saturation ==
            IF released_last_6m >= 50 THEN <<"High saturation (many recent releases)">>
            ELSE IF released_last_6m >= 20 THEN <<"Moderate saturation">>
            ELSE <<"Low saturation">>
        complexity ==
            IF complexity_penalty > 0
                THEN <<"Penalized for small team vs high complexity">>
            ELSE IF complexity_score >= 4 /\ team_size < 6
                THEN <<"Moderate complexity for team size">>
            ELSE <<"Good complexity match for team size">>
    IN  success \o trend \o saturation \o complexity

\* ---- the calls that are explored: the values on and next to every threshold ----
ReasonsInit ==
    reasons_call \in [recent_success_rate_24m : {0, 149999, 150000, 299999, 300000},
                      trend_score : {-100001, -100000, 0, 1, 100000, 100001},
                      released_last_6m : {0, 19, 20, 49, 50},
                      complexity_penalty : {0, 35},
                      team_size : {1, 5, 6},
                      complexity_score : {3, 4},
                      done : {FALSE}, ret : {<<>>}]

ReasonsIdle ==
    reasons_call = [recent_success_rate_24m |-> 0, trend_score |-> 0,
                    released_last_6m |-> 0, complexity_penalty |-> 0, team_size |-> 0,
                    complexity_score |-> 0, done |-> FALSE, ret |-> <<>>]

CallReasons ==
    /\ ~reasons_call.done
    /\ reasons_call' = [reasons_call EXCEPT
           !.done = TRUE,
           !.ret = generate_reasons(reasons_call.recent_success_rate_24m,
                                    reasons_call.trend_score,
                                    reasons_call.released_last_6m,
                                    reasons_call.complexity_penalty,
                                    reasons_call.team_size,
                                    reasons_call.complexity_score)]
    /\ UNCHANGED exceptReasons

\* C14: the remarks are, in this order, one on the success rate (high from 0.30,
\* moderate from 0.15, else low), at most one on the trend (strong positive above
\* 0.10, positive above 0, negative below -0.10, none from -0.10 to 0), one on
\* saturation (high from 50 releases, moderate from 20, else low) and one on
\* complexity (the penalty note for a penalty above 0, else moderate for a
\* complexity of 4 or more and a team below 6, else good fit).
C14_ReasonTiers ==
    reasons_call.done =>
        LET c == reasons_call
            n == Len(c.ret)
            trend_remarks == {"Strong positive trend", "Positive trend", "Negative trend"}
            has_trend == c.trend_score > 0 \/ c.trend_score < -100000
        IN  /\ n = IF has_trend THEN 4 ELSE 3
            /\ c.ret[1] = CASE c.recent_success_rate_24m >= 300000
                                 -> "High recent success rate"
                            [] c.recent_success_rate_24m \in 150000..299999
                                 -> "Moderate recent success rate"
                            [] OTHER -> "Low recent success rate"
            /\ has_trend =>
                 c.ret[2] = CASE c.trend_score > 100000 -> "Strong positive trend"
                              [] c.trend_score \in 1..100000 -> "Positive trend"
                              [] OTHER -> "Negative trend"
            /\ \A i \in 1..n : c.ret[i] \in trend_remarks => (has_trend /\ i = 2)
            /\ c.ret[n - 1] = CASE c.released_last_6m >= 50
                                     -> "High saturation (many recent releases)"
                                [] c.released_last_6m \in 20..49 -> "Moderate saturation"
                                [] OTHER -> "Low saturation"
            /\ c.ret[n] = CASE c.complexity_penalty > 0
                                 -> "Penalized for small team vs high complexity"
                            [] c.complexity_penalty <= 0 /\ c.complexity_score >= 4
                                 /\ c.team_size < 6
                                 -> "Moderate complexity for team size"
                            [] OTHER -> "Good complexity match for team size"

C14_Witness ==
    /\ reasons_call.done
    /\ reasons_call.trend_score = 100000
    /\ reasons_call.recent_success_rate_24m = 150000
    /\ reasons_call.released_last_6m = 49
    /\ reasons_call.complexity_penalty = 0
    /\ reasons_call.complexity_score = 4
    /\ reasons_call.team_size = 5
    /\ reasons_call.ret = <<"Moderate recent success rate", "Positive trend",
                            "Moderate saturation", "Moderate complexity for team size">>

(***************************************************************************)
(* recommend_tags                                                          *)
(***************************************************************************)
\* t.lower().strip()
NormTag(t) == StrStrip(StrLower(t))

\* [t.lower().strip() for t in tags]
LowerList(tags) == [i \in 1..Len(tags) |-> NormTag(tags[i])]

\* avoid filter that compares the raw strings
AvoidFilter_exact(tag_summary, avoid_tags_lower) ==
    IF avoid_tags_lower # <<>>
        THEN SelectSeq(tag_summary, LAMBDA row : row.tag \notin Range(avoid_tags_lower))
        ELSE tag_summary

\* tag_summary[~tag.str.lower().str.strip().isin(avoid_tags_lower)]
AvoidFilter(tag_summary, avoid_tags_lower) ==
    IF avoid_tags_lower # <<>>
        THEN SelectSeq(tag_summary,
                       LAMBDA row : NormTag(row.tag) \notin Range(avoid_tags_lower))
        ELSE tag_summary

\* allow filter that keeps every row
AllowFilter_none(tag_summary, allow_tags) == tag_summary

\* allow_tags_lower is set only for a non-empty allow list, and only then is
\* tag_summary[tag.str.lower().str.strip().isin(allow_tags_lower)] taken
AllowFilter(tag_summary, allow_tags) ==
    LET truthy == ~allow_tags.is_none /\ allow_tags.value # <<>>
        allow_tags_lower == LowerList(allow_tags.value)
    IN  IF truthy
            THEN SelectSeq(tag_summary,
                           LAMBDA row : NormTag(row.tag) \in Range(allow_tags_lower))
            ELSE tag_summary

\* bonus given to every tag
prefer_bonus_always(tag_lower, prefer_tags_lower) == PREFER_BONUS

\* 0.05 if tag_lower in prefer_tags_lower else 0.0
prefer_bonus_of(tag_lower, prefer_tags_lower) ==
    IF tag_lower \in Range(prefer_tags_lower) THEN PREFER_BONUS ELSE 0

\* complexity_map.get(tag, settings.DEFAULT_COMPLEXITY)
MapGet(map, key, default) == IF key \in DOMAIN map THEN map[key] ELSE default

\* the dict appended for one row of the filtered table
Recommendation(row, team_size, prefer_tags_lower, complexity_map) ==
    LET tag == StrStrip(row.tag)
        tag_lower == StrLower(tag)
        complexity_score == MapGet(complexity_map, tag, DEFAULT_COMPLEXITY)
        complexity_penalty == compute_complexity_penalty(team_size, complexity_score)
        prefer_bonus == prefer_bonus_of(tag_lower, prefer_tags_lower)
        score == compute_score(row.recent_success_rate_24m, row.trend_score,
                               row.released_last_6m, complexity_penalty, prefer_bonus)
    IN  [tag |-> tag,
         score |-> RoundHalfEven(score, 10000),
         recent_success_rate_24m |-> RoundHalfEven(row.recent_success_rate_24m, 100),
         trend_score |-> RoundHalfEven(row.trend_score, 100),
         released_last_6m |-> row.released_last_6m,
         complexity_score |-> complexity_score,
         complexity_penalty |-> complexity_penalty,
         reasons |-> generate_reasons(row.recent_success_rate_24m, row.trend_score,
                                      row.released_last_6m, complexity_penalty,
                                      team_size, complexity_score)]

\* insertion that puts x before the elements of equal score
RECURSIVE InsertDesc_before(_, _)
InsertDesc_before(s, x) ==
    IF s = <<>> THEN <<x>>
    ELSE IF Head(s).score > x.score THEN <<Head(s)>> \o InsertDesc_before(Tail(s), x)
    ELSE <<x>> \o s

\* x put into s, which is in descending order of score, behind every element
\* whose score is not lower
RECURSIVE InsertDesc(_, _)
InsertDesc(s, x) ==
    IF s = <<>> THEN <<x>>
    ELSE IF Head(s).score >= x.score THEN <<Head(s)>> \o InsertDesc(Tail(s), x)
    ELSE <<x>> \o s

RECURSIVE SortInto(_, _)
SortInto(sorted, rest) ==
    IF rest = <<>> THEN sorted
    ELSE SortInto(InsertDesc(sorted, Head(rest)), Tail(rest))

\* recommendations.sort(key=lambda x: x["score"], reverse=True): list.sort is
\* stable, also with reverse=True
SortByScoreDesc(recommendations) == SortInto(<<>>, recommendations)

\* s[:n]
SliceTo(s, n) ==
    IF n >= 0 THEN SubSeq(s, 1, Min(n, Len(s))) ELSE SubSeq(s, 1, Max(0, Len(s) + n))

\* max() of a non-empty column of strings
RECURSIVE StrMax(_)
StrMax(col) ==
    IF Len(col) = 1 THEN col[1]
    ELSE LET m == StrMax(Tail(col))
         IN  IF StrLess(col[1], m) THEN m ELSE col[1]

\* an empty result that carries the maximum of an empty column
EmptyResult_nan ==
    [error |-> "", recommendations |-> <<>>,
     meta |-> [data_last_month |-> <<"n", "a", "n">>, unique_tags |-> 0]]

\* return [], {"data_last_month": "", "unique_tags": 0}
EmptyResult ==
    [error |-> "", recommendations |-> <<>>,
     meta |-> [data_last_month |-> <<>>, unique_tags |-> 0]]

\* load_tag_summary() of a missing artifact
NotFoundResult ==
    [error |-> "FileNotFoundError", recommendations |-> <<>>,
     meta |-> [data_last_month |-> <<>>, unique_tags |-> 0]]

\* prefer_tags and avoid_tags of None are read as []; file is the tag-summary
\* artifact, read through load_tag_summary
recommend_tags(team_size, top_n, prefer_tags, avoid_tags, allow_tags, file, complexity_map) ==
    LET prefer_tags_lower == LowerList(prefer_tags)
        avoid_tags_lower == LowerList(avoid_tags)
        allowed == AllowFilter(file.rows, allow_tags)
        tag_summary == AvoidFilter(allowed, avoid_tags_lower)
        recommendations ==
            [i \in 1..Len(tag_summary) |->
                Recommendation(tag_summary[i], team_size, prefer_tags_lower,
                               complexity_map)]
        last_month == StrMax([i \in 1..Len(tag_summary) |-> tag_summary[i].last_month])
    IN  IF ~file.exists THEN NotFoundResult
        ELSE IF Len(tag_summary) = 0 THEN EmptyResult
        ELSE [error |-> "",
              recommendations |-> SliceTo(SortByScoreDesc(recommendations), top_n),
              meta |-> [data_last_month |-> last_month,
                        unique_tags |-> Len(tag_summary)]]

\* ---- the calls of recommend_tags that are explored ----
MaxRows == 3
MaxTopN == 2

\* the sequences of at most n distinct elements of S
DistinctSeqs(S, n) ==
    UNION {{q \in [1..k -> S] : \A i, j \in 1..k : i # j => q[i] # q[j]} : k \in 0..n}

SummaryRowPool ==
    { [tag |-> <<"R", "P", "G">>, recent_success_rate_24m |-> 300000,
       trend_score |-> 0, released_last_6m |-> 1, last_month |-> <<"0", "5">>],
      [tag |-> <<" ", "r", "p", "g">>, recent_success_rate_24m |-> 300000,
       trend_score |-> 0, released_last_6m |-> 1, last_month |-> <<"1", "1">>],
      [tag |-> <<"S", "i", "m">>, recent_success_rate_24m |-> 400020,
       trend_score |-> 0, released_last_6m |-> 0, last_month |-> <<"1", "0">>],
      [tag |-> <<"M", "i", "s">>, recent_success_rate_24m |-> 400049,
       trend_score |-> 0, released_last_6m |-> 0, last_month |-> <<"0", "5">>] }

ComplexityMap ==
    [t \in {<<"R", "P", "G">>, <<"S", "i", "m">>} |->
        IF t = <<"R", "P", "G">> THEN 5 ELSE 2]

PreferLists == { <<>>, << <<"r", "p", "g", " ">> >>,
                 << <<"S", "I", "M">>, <<"M", "i", "s">> >> }
AvoidLists == { <<>>, << <<" ", "R", "p", "g">> >>,
                << <<"s", "i", "m">>, <<"R", "P", "G">> >>,
                << <<"R", "P", "G">>, <<"s", "i", "m">> >> }
AllowLists == { [is_none |-> TRUE, value |-> <<>>],
                [is_none |-> FALSE, value |-> <<>>],
                [is_none |-> FALSE, value |-> << <<"r", "p", "g">> >>],
                [is_none |-> FALSE,
                 value |-> << <<"S", "I", "M", " ">>, <<"r", "p", "g">> >>] }

SummaryFiles ==
    {[exists |-> FALSE, rows |-> <<>>]}
      \cup {[exists |-> TRUE, rows |-> q] : q \in DistinctSeqs(SummaryRowPool, MaxRows)}

RecInit ==
    rec_call \in [team_size : {1, 6}, top_n : 0..MaxTopN, prefer_tags : PreferLists,
                  avoid_tags : AvoidLists, allow_tags : AllowLists,
                  file : SummaryFiles, done : {FALSE}, ret : {EmptyResult}]

RecIdle ==
    rec_call = [team_size |-> 1, top_n |-> 0, prefer_tags |-> <<>>, avoid_tags |-> <<>>,
                allow_tags |-> [is_none |-> TRUE, value |-> <<>>],
                file |-> [exists |-> FALSE, rows |-> <<>>],
                done |-> FALSE, ret |-> EmptyResult]

CallRecommend ==
    /\ ~rec_call.done
    /\ rec_call' = [rec_call EXCEPT
           !.done = TRUE,
           !.ret = recommend_tags(rec_call.team_size, rec_call.top_n,
                                  rec_call.prefer_tags, rec_call.avoid_tags,
                                  rec_call.allow_tags, rec_call.file, ComplexityMap)]
    /\ UNCHANGED exceptRec

\* ---- what the claims speak of ----
\* two tag strings are equal ignoring case and surrounding whitespace
SameTag(s, t) == NormTag(s) = NormTag(t)

RecReturned == rec_call.done /\ rec_call.ret.error = ""
Recs == rec_call.ret.recommendations

\* the rows of the table that the allow and avoid lists of the call let through
RecCandidateIdx ==
    {i \in 1..Len(rec_call.file.rows) :
        /\ \A k \in 1..Len(rec_call.avoid_tags) :
              ~SameTag(rec_call.file.rows[i].tag, rec_call.avoid_tags[k])
        /\ ( rec_call.allow_tags.is_none \/ rec_call.allow_tags.value = <<>>
             \/ \E k \in 1..Len(rec_call.allow_tags.value) :
                   SameTag(rec_call.file.rows[i].tag, rec_call.allow_tags.value[k]) )}

\* the position in the table of the row a recommendation was made from
RowOf(rec) ==
    CHOOSE i \in 1..Len(rec_call.file.rows) :
        StrStrip(rec_call.file.rows[i].tag) = rec.tag

\* C4: no returned tag equals, ignoring case and surrounding whitespace, an entry of
\* avoid_tags, for every order of avoid_tags and also when the tag is allowed or
\* preferred.
C4_AvoidExcluded ==
    RecReturned =>
        \A i \in 1..Len(Recs) : \A k \in 1..Len(rec_call.avoid_tags) :
            ~SameTag(Recs[i].tag, rec_call.avoid_tags[k])

C4_Witness ==
    /\ RecReturned
    /\ Len(Recs) > 0
    /\ \E i \in 1..Len(rec_call.file.rows) : \E k \in 1..Len(rec_call.avoid_tags) :
          /\ SameTag(rec_call.file.rows[i].tag, rec_call.avoid_tags[k])
          /\ rec_call.file.rows[i].tag # rec_call.avoid_tags[k]
          /\ \E a \in 1..Len(rec_call.allow_tags.value) :
                SameTag(rec_call.file.rows[i].tag, rec_call.allow_tags.value[a])
          /\ \E a \in 1..Len(rec_call.prefer_tags) :
                SameTag(rec_call.file.rows[i].tag, rec_call.prefer_tags[a])

C6_RankedStableTruncated ==
    (RecReturned /\ rec_call.top_n >= 1) =>
        /\ Len(Recs) = Min(rec_call.top_n, Cardinality(RecCandidateIdx))
        /\ \A i \in 1..Len(Recs) : RowOf(Recs[i]) \in RecCandidateIdx
        /\ \A i, j \in 1..Len(Recs) :
              i < j => \/ Recs[i].score > Recs[j].score
                       \/ /\ Recs[i].score = Recs[j].score
                          /\ RowOf(Recs[i]) < RowOf(Recs[j])
        /\ \A c \in RecCandidateIdx :
              (\A i \in 1..Len(Recs) : RowOf(Recs[i]) # c) =>
                 LET left == Recommendation(rec_call.file.rows[c], rec_call.team_size,
                                            LowerList(rec_call.prefer_tags),
                                            ComplexityMap)
                 IN  \A i \in 1..Len(Recs) :
                        \/ Recs[i].score > left.score
                        \/ /\ Recs[i].score = left.score
                           /\ RowOf(Recs[i]) < c

C6_Witness ==
    /\ RecReturned
    /\ Len(Recs) = 2
    /\ Cardinality(RecCandidateIdx) = 3
    /\ Recs[1].score = Recs[2].score
    /\ Recs[1].tag # Recs[2].tag

\* C7: when the allow and avoid lists leave no row of a loaded table, the call
\* returns an empty list with unique_tags = 0 and an empty data_last_month, and no
\* error.
C7_EmptyWhenNoCandidates ==
    (rec_call.done /\ rec_call.file.exists /\ RecCandidateIdx = {}) =>
        /\ rec_call.ret.error = ""
        /\ rec_call.ret.recommendations = <<>>
        /\ rec_call.ret.meta.unique_tags = 0
        /\ rec_call.ret.meta.data_last_month = <<>>

C7_Witness ==
    /\ rec_call.done
    /\ rec_call.file.exists
    /\ Len(rec_call.file.rows) >= 2
    /\ rec_call.top_n >= 1
    /\ RecCandidateIdx = {}
    /\ rec_call.ret.recommendations = <<>>

\* C9: a returned score carries the prefer bonus if and only if the tag equals,
\* ignoring case and surrounding whitespace, an entry of prefer_tags, and the score
\* with the bonus is the score without it plus exactly 0.05.
C9_PreferBonus ==
    RecReturned =>
        \A i \in 1..Len(Recs) :
            LET row == rec_call.file.rows[RowOf(Recs[i])]
                preferred == \E k \in 1..Len(rec_call.prefer_tags) :
                                 SameTag(row.tag, rec_call.prefer_tags[k])
                plain == RoundHalfEven(
                             compute_score(row.recent_success_rate_24m, row.trend_score,
                                           row.released_last_6m,
                                           Recs[i].complexity_penalty, 0),
                             10000)
            IN  Recs[i].score = IF preferred THEN plain + 500 ELSE plain

C9_Witness ==
    /\ RecReturned
    /\ Len(Recs) = 2
    /\ \E k \in 1..Len(rec_call.prefer_tags) :
          /\ SameTag(Recs[1].tag, rec_call.prefer_tags[k])
          /\ Recs[1].tag # rec_call.prefer_tags[k]
    /\ \A k \in 1..Len(rec_call.prefer_tags) :
          ~SameTag(Recs[2].tag, rec_call.prefer_tags[k])

(***************************************************************************)
(* Combination keys of one title                                           *)
(* (build_tag_combo_summary.py and build_tag_risk_summary.py)              *)
(***************************************************************************)
MAX_TAGS_PER_GAME == 6
MAX_COMBO_SIZE == 2
RISK_MAX_COMBO_SIZE == 3

\* s.split(sep) for a one-character separator: cur is the piece being read
RECURSIVE SplitFrom(_, _, _)
SplitFrom(s, sep, cur) ==
    IF s = <<>> THEN <<cur>>
    ELSE IF Head(s) = sep THEN <<cur>> \o SplitFrom(Tail(s), sep, <<>>)
    ELSE SplitFrom(Tail(s), sep, Append(cur, Head(s)))

StrSplit(s, sep) == SplitFrom(s, sep, <<>>)

\* list(dict.fromkeys(xs)): the first occurrence of each element, in order
RECURSIVE FromKeys(_, _)
FromKeys(xs, seen) ==
    IF xs = <<>> THEN <<>>
    ELSE IF Head(xs) \in seen THEN FromKeys(Tail(xs), seen)
    ELSE <<Head(xs)>> \o FromKeys(Tail(xs), seen \cup {Head(xs)})

\* the value of row.get("tags_parsed") as a list, or <<>> when the row is skipped:
\* a missing value, a value that is no list, an empty list
TagsAsList(field) ==
    IF field.kind = "none" THEN <<>>
    ELSE IF field.kind = "str"
        THEN LET pieces == StrSplit(field.val, ",")
                 stripped == [i \in 1..Len(pieces) |-> StrStrip(pieces[i])]
             IN  SelectSeq(stripped, LAMBDA t : t # <<>>)
    ELSE field.val

\* the same without the test "if t"
NormalizeComboTags_unfiltered(field) ==
    LET raw == TagsAsList(field)
        lowered == [i \in 1..Len(raw) |-> NormTag(raw[i])]
        uniq == FromKeys(lowered, {})
    IN  SubSeq(uniq, 1, Min(MAX_TAGS_PER_GAME, Len(uniq)))

\* list(dict.fromkeys(t.lower().strip() for t in tags if t))[:MAX_TAGS_PER_GAME]
NormalizeComboTags(field) ==
    LET raw == SelectSeq(TagsAsList(field), LAMBDA t : t # <<>>)
        lowered == [i \in 1..Len(raw) |-> NormTag(raw[i])]
        uniq == FromKeys(lowered, {})
    IN  SubSeq(uniq, 1, Min(MAX_TAGS_PER_GAME, Len(uniq)))

\* the elements of tags at the positions in at, in the order of tags
RECURSIVE Pick(_, _, _)
Pick(tags, i, at) ==
    IF i > Len(tags) THEN <<>>
    ELSE (IF i \in at THEN <<tags[i]>> ELSE <<>>) \o Pick(tags, i + 1, at)

\* the tuples of itertools.combinations(tags, k) for k in 1..min(len(tags), max_size),
\* each named by the positions it takes
ComboPositions(tags, max_size) ==
    {at \in SUBSET (1..Len(tags)) : Cardinality(at) \in 1..Min(Len(tags), max_size)}

\* ",".join(combo)
ComboKey(combo) == StrJoin(<<",">>, combo)

\* the keys agg is indexed with while one title is scanned
TitleKeys(field) ==
    LET tags == NormalizeComboTags(field)
    IN  {ComboKey(Pick(tags, 1, at)) : at \in ComboPositions(tags, MAX_COMBO_SIZE)}

\* the tags of the model that are members of WHITELIST and of BLACKLIST
WHITELIST == {<<"r", "p", "g">>, <<"r", "t", "s">>}
BLACKLIST == {<<"v", "r">>}

\* sorted(S) for a set of strings
RECURSIVE SortedStrings(_)
SortedStrings(S) ==
    IF S = {} THEN <<>>
    ELSE LET m == CHOOSE x \in S : \A y \in S : ~StrLess(y, x)
         IN  <<m>> \o SortedStrings(S \ {m})

\* normalize_tags of build_tag_risk_summary.py
normalize_tags(field) ==
    IF field.kind # "list" THEN <<>>
    ELSE LET stripped == [i \in 1..Len(field.val) |-> StrLower(StrStrip(field.val[i]))]
             out == SelectSeq(stripped, LAMBDA t : t \in WHITELIST /\ t \notin BLACKLIST)
         IN  SortedStrings(Range(out))

\* the group keys (tuples) build_tag_risk_summary.py makes for one title, as ", ".join
RiskTitleKeys(field) ==
    LET tags == normalize_tags(field)
    IN  {StrJoin(<<",", " ">>, Pick(tags, 1, at)) :
            at \in ComboPositions(tags, RISK_MAX_COMBO_SIZE)}

\* ---- the titles that are explored ----
MaxTags == 3

\* list elements as parse_tags leaves them: stripped, a blank one empty
RawTagPool == { <<"R", "P", "G">>, <<"r", "p", "g">>, <<"R", "t", "s">>,
                <<"r", "t", "s">>, <<>> }

ListsUpTo(S, n) == UNION {[1..k -> S] : k \in 0..n}

\* a title with seven distinct tags, and the same tags in another order
LongTagLists ==
    { << <<"r">>, <<"p">>, <<"g">>, <<"s">>, <<"i">>, <<"m">>, <<"o">> >>,
      << <<"o">>, <<"M">>, <<"i">>, <<"s">>, <<"g">>, <<"p">>, <<"r">> >> }

TagFields ==
    {[kind |-> "list", val |-> q] : q \in ListsUpTo(RawTagPool, MaxTags) \cup LongTagLists}
      \cup {[kind |-> "none", val |-> <<>>],
            [kind |-> "str", val |-> <<"R", "P", "G", ",", " ", "r", "t", "s", ",", " ">>],
            [kind |-> "str", val |-> <<" ", ",">>]}

\* the distinct lowercase tags of a title
TagSet(field) ==
    {NormTag(t) : t \in {x \in Range(TagsAsList(field)) : x # <<>>}}

\* two titles whose tag lists hold the same tags: one is the other permuted, with
\* duplicates or case variants added
KeyInit ==
    key_call \in UNION {
        {[a |-> fa, b |-> fb, done |-> FALSE, keys_a |-> {}, keys_b |-> {},
          risk_keys_a |-> {}, risk_keys_b |-> {}] :
            fb \in {f \in TagFields : TagSet(f) = TagSet(fa)}} : fa \in TagFields}

KeyIdle ==
    key_call = [a |-> [kind |-> "none", val |-> <<>>], b |-> [kind |-> "none", val |-> <<>>],
                done |-> FALSE, keys_a |-> {}, keys_b |-> {},
                risk_keys_a |-> {}, risk_keys_b |-> {}]

ScanTitlePair ==
    /\ ~key_call.done
    /\ key_call' = [key_call EXCEPT !.done = TRUE,
                                    !.keys_a = TitleKeys(key_call.a),
                                    !.keys_b = TitleKeys(key_call.b),
                                    !.risk_keys_a = RiskTitleKeys(key_call.a),
                                    !.risk_keys_b = RiskTitleKeys(key_call.b)]
    /\ UNCHANGED exceptKeys

\* the comma-join of a set of tags in sorted order
CanonicalKey(S) == StrJoin(<<",">>, SortedStrings(S))

\* C1: two tag lists that hold the same tags (a permutation, with duplicates or case
\* variants) give the same set of combination keys, and each key is the comma-join
\* of its distinct lowercase tags in sorted order.
C1_KeysOrderInsensitive ==
    (key_call.done /\ TagSet(key_call.a) = TagSet(key_call.b)) =>
        /\ key_call.keys_a = key_call.keys_b
        /\ \A k \in key_call.keys_a :
              \E S \in SUBSET TagSet(key_call.a) : S # {} /\ k = CanonicalKey(S)

\* the same holds of the keys of build_tag_risk_summary.py, which sorts the tags
RiskKeysOrderInsensitive ==
    ( /\ key_call.done
      /\ key_call.a.kind = "list" /\ key_call.b.kind = "list"
      /\ TagSet(key_call.a) = TagSet(key_call.b) ) =>
        key_call.risk_keys_a = key_call.risk_keys_b

(***************************************************************************)
(* build_tag_combo_summary.py: the scan of df and the summary               *)
(* Time weights are counted in halves (1.0 -> 2).                          *)
(***************************************************************************)
RECENT_MONTHS == 24
MIN_GAMES_WEIGHT == 8

\* defaultdict's value for a key first seen
ZeroAgg ==
    [released_w |-> 0, profitable_w |-> 0, recent_released_w |-> 0,
     recent_profitable_w |-> 0, pub_prof |-> 0, nopub_prof |-> 0]

EmptyAgg == [k \in {} |-> ZeroAgg]

\* pd.notna(release_date_parsed) and Timestamp(release_date_parsed) >= cutoff_recent
is_recent(row) == ~row.release.null /\ row.release.months_ago <= RECENT_MONTHS

\* the increments of lines 97-110, made once for one combination of the row
AddTitle(a, row) ==
    LET w == row.time_weight
        p == row.is_profitable
    IN  [released_w |-> a.released_w + w,
         profitable_w |-> a.profitable_w + w * p,
         recent_released_w |-> a.recent_released_w + (IF is_recent(row) THEN w ELSE 0),
         recent_profitable_w |->
             a.recent_profitable_w + (IF is_recent(row) THEN w * p ELSE 0),
         pub_prof |-> a.pub_prof + (IF row.has_publisher = 1 THEN p ELSE 0),
         nopub_prof |-> a.nopub_prof + (IF row.has_publisher = 1 THEN 0 ELSE p)]

RECURSIVE AddTitleTimes(_, _, _)
AddTitleTimes(a, row, n) == IF n = 0 THEN a ELSE AddTitleTimes(AddTitle(a, row), row, n - 1)

\* the body of the loop over df for one row: every combination of the row's tags
\* updates agg[key] once
ScanOne(a, row) ==
    LET tags == NormalizeComboTags(row.tags_parsed)
        pos == ComboPositions(tags, MAX_COMBO_SIZE)
        keyOf(ix) == ComboKey(Pick(tags, 1, ix))
        keys == {keyOf(ix) : ix \in pos}
        times(k) == Cardinality({ix \in pos : keyOf(ix) = k})
    IN  [k \in DOMAIN a \cup keys |->
            LET old == IF k \in DOMAIN a THEN a[k] ELSE ZeroAgg
            IN  IF k \in keys THEN AddTitleTimes(old, row, times(k)) ELSE old]

\* a denominator that is not floored
EpsFloor_none(d) == [num |-> d, den |-> 1]

\* max(d, 1e-6) for a weight d counted in halves, as a fraction of halves
EpsFloor(d) == IF d > 0 THEN [num |-> d, den |-> 1] ELSE [num |-> 1, den |-> 500000]

\* n / max(d, 1e-6) for weights n and d counted in halves, as a fraction
WeightRatio(n, d) == [num |-> n * EpsFloor(d).den, den |-> EpsFloor(d).num]

\* the denominators of lines 121-131 for the counters a, in evaluation order
Denominators(a) ==
    {EpsFloor(a.profitable_w).num, EpsFloor(a.recent_profitable_w).num,
     EpsFloor(a.profitable_w - a.recent_profitable_w).num,
     Max(a.pub_prof + a.nopub_prof, 1)}

\* round(x, 3) of a fraction that is not negative: whole part and thousandths
Round3(f) ==
    LET w == f.num \div f.den
        m == RoundHalfEven(1000 * (f.num % f.den), f.den)
    IN  IF m = 1000 THEN [whole |-> w + 1, milli |-> 0] ELSE [whole |-> w, milli |-> m]

\* the difference taken the other way round: old_ratio - recent_ratio
TrendDelta_reversed(recent_ratio, old_ratio) ==
    LET num == old_ratio.num * recent_ratio.den - recent_ratio.num * old_ratio.den
        den == recent_ratio.den * old_ratio.den
    IN  IF num > 5 * den THEN 5000
        ELSE IF num < -5 * den THEN -5000
        ELSE RoundHalfEven(1000 * num, den)

\* round(max(min(recent_ratio - old_ratio, 5.0), -5.0), 3) in thousandths
TrendDelta(recent_ratio, old_ratio) ==
    LET num == recent_ratio.num * old_ratio.den - old_ratio.num * recent_ratio.den
        den == recent_ratio.den * old_ratio.den
    IN  IF num > 5 * den THEN 5000
        ELSE IF num < -5 * den THEN -5000
        ELSE RoundHalfEven(1000 * num, den)

\* a threshold that only asks for some support
Retained_positive(a) == a.released_w > 0

\* not (a["released_w"] < MIN_GAMES_WEIGHT), the weight counted in halves
Retained(a) == ~(a.released_w < 2 * MIN_GAMES_WEIGHT)

\* the row appended for one retained combination
SummaryRow(combo, a) ==
    LET risk == WeightRatio(a.released_w, a.profitable_w)
        recent_ratio ==
            IF a.recent_released_w # 0
                THEN WeightRatio(a.recent_released_w, a.recent_profitable_w)
                ELSE risk
        old_ratio == WeightRatio(a.released_w - a.recent_released_w,
                                 a.profitable_w - a.recent_profitable_w)
    IN  [tag_combo |-> combo,
         combo_size |-> Cardinality({i \in 1..Len(combo) : combo[i] = ","}) + 1,
         weighted_released |-> 500 * a.released_w,
         weighted_profitable |-> 500 * a.profitable_w,
         risk_ratio |-> Round3(risk),
         trend_delta |-> TrendDelta(recent_ratio, old_ratio),
         publisher_dependency |->
             RoundHalfEven(1000 * a.pub_prof, Max(a.pub_prof + a.nopub_prof, 1))]

\* the rows list of lines 116-141; the order of the rows in the artifact is left out
SummaryRows(a) == {SummaryRow(k, a[k]) : k \in {c \in DOMAIN a : Retained(a[c])}}

\* ---- the runs that are explored ----
MaxGames == 9

GamePool ==
    { [tags_parsed |-> [kind |-> "list", val |-> << <<"R", "P", "G">>, <<"R", "t", "s">> >>],
       time_weight |-> 2, is_profitable |-> 1,
       release |-> [null |-> FALSE, months_ago |-> 3], has_publisher |-> 1],
      [tags_parsed |-> [kind |-> "list", val |-> << <<"r", "t", "s">>, <<"r", "p", "g">> >>],
       time_weight |-> 2, is_profitable |-> 0,
       release |-> [null |-> FALSE, months_ago |-> 24], has_publisher |-> 0],
      [tags_parsed |-> [kind |-> "list", val |-> << <<"R", "P", "G">> >>],
       time_weight |-> 1, is_profitable |-> 1,
       release |-> [null |-> FALSE, months_ago |-> 40], has_publisher |-> 0],
      [tags_parsed |-> [kind |-> "none", val |-> <<>>],
       time_weight |-> 2, is_profitable |-> 1,
       release |-> [null |-> FALSE, months_ago |-> 1], has_publisher |-> 1],
      [tags_parsed |-> [kind |-> "list", val |-> << <<"R", "P", "G">>, <<>> >>],
       time_weight |-> 2, is_profitable |-> 1,
       release |-> [null |-> TRUE, months_ago |-> 0], has_publisher |-> 1],
      [tags_parsed |-> [kind |-> "str",
                        val |-> <<"r", "p", "g", ",", "R", "t", "s", ",", " ", "s", "i", "m">>],
       time_weight |-> 1, is_profitable |-> 0,
       release |-> [null |-> FALSE, months_ago |-> 25], has_publisher |-> 1],
      [tags_parsed |-> [kind |-> "list", val |-> << <<"r", ",", "p">>, <<"r">> >>],
       time_weight |-> 2, is_profitable |-> 1,
       release |-> [null |-> FALSE, months_ago |-> 3], has_publisher |-> 0] }

NoSummary == [exists |-> FALSE, rows |-> {}]

\* the artifact an earlier run left behind
OldSummary ==
    [exists |-> TRUE,
     rows |-> {[tag_combo |-> <<"r", "p", "g">>, combo_size |-> 1,
                weighted_released |-> 9000, weighted_profitable |-> 4500,
                risk_ratio |-> [whole |-> 2, milli |-> 0], trend_delta |-> 0,
                publisher_dependency |-> 500]}]

AggInit ==
    /\ n_games \in 0..MaxGames
    /\ idx = 0
    /\ agg = EmptyAgg
    /\ agg_pc = "scan"
    /\ combo_summary \in {NoSummary, OldSummary}

AggIdle ==
    /\ n_games = 0
    /\ idx = 0
    /\ agg = EmptyAgg
    /\ agg_pc = "idle"
    /\ combo_summary = NoSummary

\* one iteration of the loop over df.iterrows()
ScanRow ==
    /\ agg_pc = "scan"
    /\ idx < n_games
    /\ \E row \in GamePool : agg' = ScanOne(agg, row)
    /\ idx' = idx + 1
    /\ UNCHANGED <<n_games, agg_pc, combo_summary, exceptAgg>>

\* the loop ends after the last row
EndScan ==
    /\ agg_pc = "scan"
    /\ idx = n_games
    /\ agg_pc' = "build"
    /\ UNCHANGED <<n_games, idx, agg, combo_summary, exceptAgg>>

\* KeyboardInterrupt between two rows: caught, and main() goes on to the summary
Interrupt ==
    /\ agg_pc = "scan"
    /\ idx < n_games
    /\ agg_pc' = "build_partial"
    /\ UNCHANGED <<n_games, idx, agg, combo_summary, exceptAgg>>

\* lines 115-145: the rows, sorted and written; a division by zero (an exception
\* for Python numbers, inf or nan for numpy's) is kept apart and writes nothing; a frame of no rows has no risk_ratio column, sort_values
\* raises KeyError and nothing is written
BuildSummary ==
    /\ agg_pc \in {"build", "build_partial"}
    /\ IF \E k \in DOMAIN agg : Retained(agg[k]) /\ 0 \in Denominators(agg[k])
          THEN /\ agg_pc' = "zero_division"
               /\ UNCHANGED combo_summary
          ELSE IF SummaryRows(agg) = {}
          THEN /\ agg_pc' = "failed"
               /\ UNCHANGED combo_summary
          ELSE /\ agg_pc' = IF agg_pc = "build" THEN "done" ELSE "done_partial"
               /\ combo_summary' = [exists |-> TRUE, rows |-> SummaryRows(agg)]
    /\ UNCHANGED <<n_games, idx, agg, exceptAgg>>

\* C2: every row of the persisted summary has released_w >= the minimum support,
\* and after a run no combination accumulated below it is in the summary, whatever
\* the order of the titles.
C2_MinSupport ==
    /\ combo_summary.exists =>
          \A r \in combo_summary.rows : r.weighted_released >= 1000 * 8
    /\ agg_pc \in {"done", "done_partial"} =>
          \A k \in DOMAIN agg :
              agg[k].released_w < 2 * 8 =>
                  \A r \in combo_summary.rows : r.tag_combo # k

C2_Witness ==
    /\ agg_pc = "done"
    /\ \E k \in DOMAIN agg : agg[k].released_w = 4
    /\ \E k \in DOMAIN agg : agg[k].released_w = 15
    /\ \E r \in combo_summary.rows : r.weighted_released = 8000

\* n / max(d, eps) for weights in halves and eps = 1e-6, as a fraction
GuardedRatio(n, d) == IF d >= 1 THEN [num |-> n, den |-> d] ELSE [num |-> 500000 * n, den |-> 1]

\* clamp(recent_ratio - old_ratio, -5, 5) of the counters a, as a fraction
ClampedTrend(a) ==
    LET risk == GuardedRatio(a.released_w, a.profitable_w)
        recent == IF a.recent_released_w > 0
                    THEN GuardedRatio(a.recent_released_w, a.recent_profitable_w)
                    ELSE risk
        old == GuardedRatio(a.released_w - a.recent_released_w,
                            a.profitable_w - a.recent_profitable_w)
        num == recent.num * old.den - old.num * recent.den
        den == recent.den * old.den
    IN  IF num > 5 * den THEN [num |-> 5, den |-> 1]
        ELSE IF num < -5 * den THEN [num |-> -5, den |-> 1]
        ELSE [num |-> num, den |-> den]

\* the rows written by a run, each with the counters it was computed from
WrittenRows ==
    {rk \in combo_summary.rows \X DOMAIN agg : rk[1].tag_combo = rk[2]}

\* C20 as stated: the trend_delta of every summary row is
\* clamp(recent_ratio - old_ratio, -5, 5), and so lies in -5..5.
C20_TrendDeltaExact ==
    agg_pc \in {"done", "done_partial"} =>
        \A rk \in WrittenRows :
            LET t == ClampedTrend(agg[rk[2]])
            IN  /\ rk[1].trend_delta * t.den = 1000 * t.num
                /\ rk[1].trend_delta >= -5000 /\ rk[1].trend_delta <= 5000

\* C20, amended: the trend_delta of every summary row is
\* clamp(recent_ratio - old_ratio, -5, 5) rounded to three decimals (the thousandth
\* nearest to it), and so lies in -5..5; every retained combination has its row.
C20_TrendDeltaRounded ==
    agg_pc \in {"done", "done_partial"} =>
        /\ \A rk \in WrittenRows :
              LET t == ClampedTrend(agg[rk[2]])
                  off == 1000 * t.num - rk[1].trend_delta * t.den
              IN  /\ 2 * off <= t.den /\ -2 * off <= t.den
                  /\ rk[1].trend_delta >= -5000 /\ rk[1].trend_delta <= 5000
        /\ \A k \in DOMAIN agg :
              agg[k].released_w >= 2 * 8 => \E rk \in WrittenRows : rk[2] = k

C20_Witness ==
    /\ agg_pc = "done"
    /\ \E rk \in WrittenRows :
          /\ agg[rk[2]].recent_released_w > 0
          /\ agg[rk[2]].released_w > agg[rk[2]].recent_released_w
          /\ rk[1].trend_delta \in (-4999..4999) \ {0}
          /\ rk[1].trend_delta * ClampedTrend(agg[rk[2]]).den
               # 1000 * ClampedTrend(agg[rk[2]]).num

\* v thousandths is a thousandth nearest to the fraction f
NearestMilli(v, f) == 2 * (1000 * f.num - v * f.den) <= f.den /\ 2 * (v * f.den - 1000 * f.num) <= f.den

\* the rows of the persisted summary for the combination k
RowsOf(k) == {r \in combo_summary.rows : r.tag_combo = k}

\* the risk ratio and publisher dependency of the row r are those of the counters a,
\* to the thousandth
RatiosRounded(r, a) ==
    /\ IF a.profitable_w = 0
          THEN r.risk_ratio = [whole |-> 500000 * a.released_w, milli |-> 0]
          ELSE NearestMilli(1000 * r.risk_ratio.whole + r.risk_ratio.milli,
                            [num |-> a.released_w, den |-> a.profitable_w])
    /\ IF a.pub_prof + a.nopub_prof = 0
          THEN r.publisher_dependency = 0
          ELSE NearestMilli(r.publisher_dependency,
                            [num |-> a.pub_prof, den |-> a.pub_prof + a.nopub_prof])

\* the risk ratio and publisher dependency of the row r are those of the counters a
RatiosExact(r, a) ==
    /\ IF a.profitable_w = 0
          THEN r.risk_ratio = [whole |-> 500000 * a.released_w, milli |-> 0]
          ELSE (1000 * r.risk_ratio.whole + r.risk_ratio.milli) * a.profitable_w
                  = 1000 * a.released_w
    /\ r.publisher_dependency * Max(a.pub_prof + a.nopub_prof, 1) = 1000 * a.pub_prof

\* C21 as stated: no run ends in a division by zero, and every aggregate yields a
\* summary row with risk_ratio = released_w / max(profitable_w, eps) and
\* publisher_dependency = pub_prof / max(pub_prof + nopub_prof, 1).
C21_RatiosExact ==
    /\ agg_pc # "zero_division"
    /\ agg_pc \in {"done", "done_partial"} =>
          \A k \in DOMAIN agg : \E r \in RowsOf(k) : RatiosExact(r, agg[k])

\* C21, amended: no run ends in a division by zero; every aggregate that reaches the
\* minimum support, also one with profitable_w = 0, with no recent or only recent
\* titles or with no profitable title, yields exactly one summary row, whose
\* risk_ratio is released_w / max(profitable_w, eps) and whose publisher_dependency
\* is pub_prof / max(pub_prof + nopub_prof, 1), both rounded to three decimals, the
\* latter 0 when no profitable title was observed; other aggregates yield no row.
C21_RatiosRounded ==
    /\ agg_pc # "zero_division"
    /\ agg_pc \in {"done", "done_partial"} =>
          \A k \in DOMAIN agg :
              IF agg[k].released_w >= 2 * 8
                  THEN /\ Cardinality(RowsOf(k)) = 1
                       /\ \A r \in RowsOf(k) : RatiosRounded(r, agg[k])
                  ELSE RowsOf(k) = {}

C21_Witness ==
    /\ agg_pc = "done"
    /\ \E k \in DOMAIN agg :
          /\ agg[k].profitable_w = 0 /\ agg[k].pub_prof + agg[k].nopub_prof = 0
          /\ agg[k].recent_released_w = agg[k].released_w
          /\ \E r \in RowsOf(k) :
                /\ r.risk_ratio.whole = 500000 * agg[k].released_w
                /\ r.publisher_dependency = 0

\* the counters a are ordered as sums of positive weights are
CountersOrdered(a) ==
    /\ 0 <= a.recent_profitable_w /\ a.recent_profitable_w <= a.recent_released_w
    /\ a.recent_released_w <= a.released_w
    /\ a.recent_profitable_w <= a.profitable_w /\ a.profitable_w <= a.released_w
    /\ a.pub_prof >= 0 /\ a.nopub_prof >= 0

\* the row r has risk_ratio >= 1 and a publisher_dependency in 0..1
RatiosInRange(r) ==
    /\ r.risk_ratio.whole >= 1
    /\ r.publisher_dependency >= 0 /\ r.publisher_dependency <= 1000

\* C26: at every point of a scan every aggregate has
\* 0 <= recent_profitable_w <= recent_released_w <= released_w,
\* recent_profitable_w <= profitable_w <= released_w and pub_prof, nopub_prof >= 0;
\* every summary row has risk_ratio >= 1, 0 <= publisher_dependency <= 1 and
\* 1 <= combo_size <= max combo size, combo_size being the number of tags in the key.
C26_AggregateInvariants ==
    /\ \A k \in DOMAIN agg : CountersOrdered(agg[k])
    /\ agg_pc \in {"done", "done_partial"} =>
          \A r \in combo_summary.rows :
              /\ RatiosInRange(r)
              /\ r.combo_size >= 1 /\ r.combo_size <= 2
              /\ r.combo_size = Len(StrSplit(r.tag_combo, ","))

\* what holds: the order of the counters and the ranges of the ratios; combo_size
\* is one more than the commas of the key, which is the number of tags joined, and
\* at most the max combo size, for the keys whose tags hold no comma
AggregateInvariantsBarCommas ==
    /\ \A k \in DOMAIN agg : CountersOrdered(agg[k])
    /\ agg_pc \in {"done", "done_partial"} =>
          \A r \in combo_summary.rows :
              /\ RatiosInRange(r)
              /\ r.combo_size = Len(StrSplit(r.tag_combo, ","))
              /\ r.combo_size >= 1
              /\ (\A t \in Range(StrSplit(r.tag_combo, ",")) : Len(t) = 3) =>
                    r.combo_size <= 2

AggregateInvariantsBarCommas_Witness ==
    /\ agg_pc = "done"
    /\ \E r \in combo_summary.rows :
          r.tag_combo = <<"r", ",", "p", ",", "r">> /\ r.combo_size = 3
    /\ \E r \in combo_summary.rows : r.tag_combo = <<"r">> /\ r.combo_size = 1

\* C16: a run interrupted before every title was scanned writes no summary: the
\* persisted summary artifact is still the one from before the run.
C16_InterruptDiscardsPartial ==
    agg_pc \in {"build_partial", "done_partial"} =>
        /\ idx < n_games
        /\ combo_summary \in {NoSummary, OldSummary}

\* a run that is not interrupted leaves the old artifact alone until it has scanned
\* every title, and every run starts from an empty aggregate
UninterruptedRunIsWhole ==
    /\ agg_pc = "scan" => combo_summary \in {NoSummary, OldSummary}
    /\ agg_pc \in {"build", "done"} => idx = n_games
    /\ idx = 0 => agg = EmptyAgg

(***************************************************************************)
(* get_market_archetypes (backend/app/main.py)                             *)
(* Means are kept as fractions sum/count and compared by cross             *)
(* multiplication. The risk ratios of the clusters table are small enough  *)
(* to be counted in thousandths.                                           *)
(***************************************************************************)
\* a risk_ratio (whole part and thousandths) in thousandths
Milli(d) == 1000 * d.whole + d.milli

RECURSIVE SeqSum(_)
SeqSum(q) == IF q = <<>> THEN 0 ELSE Head(q) + SeqSum(Tail(q))

\* Series.mean() of a non-empty column
Mean(col) == [num |-> SeqSum(col), den |-> Len(col)]

\* a mean <= v and a mean >= v, for a number v
MeanLeq(m, v) == m.num <= v * m.den
MeanGeq(m, v) == m.num >= v * m.den
\* two means in order
MeanLess(m1, m2) == m1.num * m2.den < m2.num * m1.den

\* one row of df[df["cluster"] != -1].groupby("cluster").agg(...).reset_index()
ClusterStats(df, c) ==
    LET members == SelectSeq(df, LAMBDA r : r.cluster = c)
        col(f(_)) == [i \in 1..Len(members) |-> f(members[i])]
    IN  [cluster |-> c,
         combos |-> Len(members),
         avg_risk |-> Mean(col(LAMBDA r : Milli(r.risk_ratio))),
         avg_trend |-> Mean(col(LAMBDA r : r.trend_delta)),
         avg_publisher_dep |-> Mean(col(LAMBDA r : r.publisher_dependency)),
         avg_combo_size |-> Mean(col(LAMBDA r : r.combo_size))]

\* the labels grouped: those of the rows, without the noise label
GroupLabels(df) == {df[i].cluster : i \in 1..Len(df)} \ {-1}

\* the four thresholds without the one on publisher dependency
PassesThresholds_nopub(st, min_combos, max_avg_risk, min_trend, max_publisher_dep) ==
    /\ st.combos >= min_combos
    /\ MeanLeq(st.avg_risk, max_avg_risk)
    /\ MeanGeq(st.avg_trend, min_trend)

\* the mask of lines 410-415
PassesThresholds(st, min_combos, max_avg_risk, min_trend, max_publisher_dep) ==
    /\ st.combos >= min_combos
    /\ MeanLeq(st.avg_risk, max_avg_risk)
    /\ MeanGeq(st.avg_trend, min_trend)
    /\ MeanLeq(st.avg_publisher_dep, max_publisher_dep)

\* the orders sort_values("avg_risk") may leave a set of cluster summaries in: the
\* default sort is not stable, so summaries of equal avg_risk come in any order
SortedByAvgRisk(S) ==
    {q \in [1..Cardinality(S) -> S] :
        /\ \A i, j \in 1..Cardinality(S) : i # j => q[i] # q[j]
        /\ \A i, j \in 1..Cardinality(S) : i < j => ~MeanLess(q[j].avg_risk, q[i].avg_risk)}

\* the lists of cluster summaries get_market_archetypes may return for df
market_archetypes(df, min_combos, max_avg_risk, min_trend, max_publisher_dep) ==
    LET summary == {ClusterStats(df, c) : c \in GroupLabels(df)}
        filtered == {st \in summary :
                        PassesThresholds(st, min_combos, max_avg_risk, min_trend,
                                         max_publisher_dep)}
    IN  SortedByAvgRisk(filtered)

\* ---- the calls that are explored ----
MaxClusterRows == 4

ClusterRow(combo, c, risk, trend, pub, size) ==
    [tag_combo |-> combo, cluster |-> c, combo_size |-> size,
     risk_ratio |-> [whole |-> risk \div 1000, milli |-> risk % 1000],
     trend_delta |-> trend, publisher_dependency |-> pub]

ClusterRowPool ==
    { ClusterRow(<<"r", "p", "g">>, 0, 3000, 100, 500, 1),
      ClusterRow(<<"r", "p", "g", ",", "r", "t", "s">>, 0, 5000, -300, 500, 2),
      ClusterRow(<<"r", "t", "s">>, 1, 1000, 200, 100, 1),
      ClusterRow(<<"r", "t", "s", ",", "r", "p", "g">>, 1, 3000, 0, 900, 2),
      ClusterRow(<<"s", "i", "m">>, -1, 1000, 500, 0, 1),
      ClusterRow(<<"m", "i", "s">>, 2, 3000, 0, 200, 1) }

ClusterFiles ==
    {[exists |-> FALSE, rows |-> <<>>]}
      \cup {[exists |-> TRUE, rows |-> q] : q \in DistinctSeqs(ClusterRowPool, MaxClusterRows)}

ArchInit ==
    arch_call \in [file : ClusterFiles, min_combos : {1, 2}, max_avg_risk : {2000, 4000},
                   min_trend : {0, 100}, max_publisher_dep : {300, 650},
                   done : {FALSE}, error : {""}, clusters : {<<>>}]

ArchIdle ==
    arch_call = [file |-> [exists |-> FALSE, rows |-> <<>>], min_combos |-> 1,
                 max_avg_risk |-> 0, min_trend |-> 0, max_publisher_dep |-> 0,
                 done |-> FALSE, error |-> "", clusters |-> <<>>]

\* GET /market-archetypes; a missing clusters artifact makes load_tag_combo_clusters
\* raise FileNotFoundError
GetMarketArchetypes ==
    /\ ~arch_call.done
    /\ IF ~arch_call.file.exists
          THEN arch_call' = [arch_call EXCEPT !.done = TRUE,
                                              !.error = "FileNotFoundError"]
          ELSE \E q \in market_archetypes(arch_call.file.rows, arch_call.min_combos,
                                          arch_call.max_avg_risk, arch_call.min_trend,
                                          arch_call.max_publisher_dep) :
                  arch_call' = [arch_call EXCEPT !.done = TRUE, !.clusters = q]
    /\ UNCHANGED exceptArch

\* ---- what the claim speaks of ----
ArchRows == arch_call.file.rows
ArchMembers(c) == {i \in 1..Len(ArchRows) : ArchRows[i].cluster = c}

RECURSIVE SumOf(_, _)
SumOf(f(_), S) ==
    IF S = {} THEN 0 ELSE LET i == CHOOSE x \in S : TRUE IN f(i) + SumOf(f, S \ {i})

\* the four inequalities on the cluster labelled c, each on sum and count
ArchActionable(c) ==
    LET n == Cardinality(ArchMembers(c))
    IN  /\ n >= arch_call.min_combos
        /\ SumOf(LAMBDA i : Milli(ArchRows[i].risk_ratio), ArchMembers(c))
             <= arch_call.max_avg_risk * n
        /\ SumOf(LAMBDA i : ArchRows[i].trend_delta, ArchMembers(c))
             >= arch_call.min_trend * n
        /\ SumOf(LAMBDA i : ArchRows[i].publisher_dependency, ArchMembers(c))
             <= arch_call.max_publisher_dep * n

ArchReturned == arch_call.done /\ arch_call.error = ""

\* C10: the filter returns exactly the non-noise clusters that satisfy all four
\* predicates at once, each once, in ascending order of average risk; a cluster
\* that fails a predicate and the noise label -1 are never returned.
C10_ArchetypeFilter ==
    ArchReturned =>
        LET out == arch_call.clusters
        IN  /\ {out[i].cluster : i \in 1..Len(out)}
                 = {c \in {ArchRows[i].cluster : i \in 1..Len(ArchRows)} :
                       c # -1 /\ ArchActionable(c)}
            /\ \A i, j \in 1..Len(out) : i # j => out[i].cluster # out[j].cluster
            /\ \A i \in 1..Len(out) :
                  /\ out[i].combos = Cardinality(ArchMembers(out[i].cluster))
                  /\ out[i].avg_risk.den = out[i].combos
                  /\ out[i].avg_risk.num
                       = SumOf(LAMBDA k : Milli(ArchRows[k].risk_ratio),
                               ArchMembers(out[i].cluster))
            /\ \A i, j \in 1..Len(out) :
                  i < j => out[i].avg_risk.num * out[j].avg_risk.den
                             <= out[j].avg_risk.num * out[i].avg_risk.den

\* a cluster that fails the trend threshold alone
ArchFailsTrendOnly(c) ==
    LET n == Cardinality(ArchMembers(c))
    IN  /\ n >= arch_call.min_combos
        /\ SumOf(LAMBDA i : Milli(ArchRows[i].risk_ratio), ArchMembers(c))
             <= arch_call.max_avg_risk * n
        /\ SumOf(LAMBDA i : ArchRows[i].publisher_dependency, ArchMembers(c))
             <= arch_call.max_publisher_dep * n
        /\ SumOf(LAMBDA i : ArchRows[i].trend_delta, ArchMembers(c))
             < arch_call.min_trend * n

C10_Witness ==
    /\ ArchReturned
    /\ Len(arch_call.clusters) = 2
    /\ MeanLess(arch_call.clusters[1].avg_risk, arch_call.clusters[2].avg_risk)
    /\ arch_call.clusters[1].cluster > arch_call.clusters[2].cluster
    /\ \E i \in 1..Len(ArchRows) : ArchRows[i].cluster = -1
    /\ \E i \in 1..Len(ArchRows) :
          ArchRows[i].cluster # -1 /\ ArchFailsTrendOnly(ArchRows[i].cluster)

(***************************************************************************)
(* get_market_archetype (backend/app/main.py): the drilldown of a cluster  *)
(***************************************************************************)
\* df[df["cluster"] == cluster_id]
ClusterMembers(df, cluster_id) == SelectSeq(df, LAMBDA r : r.cluster = cluster_id)

\* the orders sort_values("risk_ratio") may leave the rows in: ascending, and rows
\* of equal risk_ratio in any order, the default sort being quicksort
SortedByRisk(rows) ==
    LET n == Len(rows)
        perms == {p \in [1..n -> 1..n] :
                     /\ \A i, j \in 1..n : i # j => p[i] # p[j]
                     /\ \A i, j \in 1..n :
                           i < j => Milli(rows[p[i]].risk_ratio)
                                      <= Milli(rows[p[j]].risk_ratio)}
    IN  {[i \in 1..n |-> rows[p[i]]] : p \in perms}

\* DataFrame.head(n)
Head_n(rows, n) == SubSeq(rows, 1, Min(n, Len(rows)))

\* TagComboItem(...) of one row
TagComboItem(row) ==
    [tag_combo |-> row.tag_combo, risk_ratio |-> row.risk_ratio,
     trend_delta |-> row.trend_delta,
     publisher_dependency |-> row.publisher_dependency,
     combo_size |-> row.combo_size]

NoClusterSummary ==
    LET z == [num |-> 0, den |-> 1]
    IN  [cluster |-> 0, combos |-> 0, avg_risk |-> z, avg_trend |-> z,
         avg_publisher_dep |-> z, avg_combo_size |-> z]

\* the responses get_market_archetype may give for the table df
market_archetype(df, cluster_id, top_n) ==
    LET cluster_df == ClusterMembers(df, cluster_id)
    IN  IF Len(cluster_df) = 0
          THEN {[error |-> "404 Cluster not found", cluster |-> NoClusterSummary,
                 top_combinations |-> <<>>]}
          ELSE {[error |-> "", cluster |-> ClusterStats(df, cluster_id),
                 top_combinations |->
                     [i \in 1..Len(Head_n(q, top_n)) |-> TagComboItem(Head_n(q, top_n)[i])]] :
                   q \in SortedByRisk(cluster_df)}

\* ---- the calls that are explored ----
MaxDrillTop == 2

DrillRowPool ==
    ClusterRowPool \cup {ClusterRow(<<"r", "p", "g", ",", "s", "i", "m">>, 0, 3000, -100, 200, 2)}

DrillFiles ==
    {[exists |-> FALSE, rows |-> <<>>]}
      \cup {[exists |-> TRUE, rows |-> q] : q \in DistinctSeqs(DrillRowPool, MaxClusterRows)}

DrillInit ==
    drill_call \in [file : DrillFiles, cluster_id : {-1, 0, 1, 3}, top_n : 1..MaxDrillTop,
                    done : {FALSE}, error : {""}, cluster : {NoClusterSummary},
                    top_combinations : {<<>>}]

DrillIdle ==
    drill_call = [file |-> [exists |-> FALSE, rows |-> <<>>], cluster_id |-> 0,
                  top_n |-> 1, done |-> FALSE, error |-> "",
                  cluster |-> NoClusterSummary, top_combinations |-> <<>>]

\* GET /market-archetypes/{cluster_id}
GetMarketArchetype ==
    /\ ~drill_call.done
    /\ IF ~drill_call.file.exists
          THEN drill_call' = [drill_call EXCEPT !.done = TRUE,
                                                !.error = "FileNotFoundError"]
          ELSE \E r \in market_archetype(drill_call.file.rows, drill_call.cluster_id,
                                         drill_call.top_n) :
                  drill_call' = [drill_call EXCEPT !.done = TRUE, !.error = r.error,
                                                   !.cluster = r.cluster,
                                                   !.top_combinations =
                                                       r.top_combinations]
    /\ UNCHANGED exceptDrill

\* ---- what the claim speaks of ----
DrillRows == drill_call.file.rows
\* the positions in the table of the members of the cluster asked for
DrillMembers == {i \in 1..Len(DrillRows) : DrillRows[i].cluster = drill_call.cluster_id}

\* the place of member i in the stable ascending order: the members of lower
\* risk_ratio, and those of equal risk_ratio that come before it in the table
StablePlace(i) ==
    1 + Cardinality({k \in DrillMembers :
            \/ Milli(DrillRows[k].risk_ratio) < Milli(DrillRows[i].risk_ratio)
            \/ /\ Milli(DrillRows[k].risk_ratio) = Milli(DrillRows[i].risk_ratio)
               /\ k < i})

DrillSummaryRight ==
    /\ drill_call.cluster.cluster = drill_call.cluster_id
    /\ drill_call.cluster.combos = Cardinality(DrillMembers)
    /\ drill_call.cluster.avg_risk.den = Cardinality(DrillMembers)
    /\ drill_call.cluster.avg_risk.num
         = SumOf(LAMBDA k : Milli(DrillRows[k].risk_ratio), DrillMembers)
    /\ drill_call.cluster.avg_trend.num
         = SumOf(LAMBDA k : DrillRows[k].trend_delta, DrillMembers)
    /\ drill_call.cluster.avg_publisher_dep.num
         = SumOf(LAMBDA k : DrillRows[k].publisher_dependency, DrillMembers)

\* C11: with the clusters table present, a cluster id that has member rows gets the
\* cluster's summary and its min(top_n, member count) lowest-risk members in
\* ascending risk_ratio order, members of equal risk_ratio in their order in the
\* table; a cluster id without member rows gets NotFound.
C11_DrilldownStable ==
    (drill_call.done /\ drill_call.file.exists) =>
        IF DrillMembers = {}
          THEN drill_call.error = "404 Cluster not found"
          ELSE /\ drill_call.error = ""
               /\ DrillSummaryRight
               /\ Len(drill_call.top_combinations)
                    = Min(drill_call.top_n, Cardinality(DrillMembers))
               /\ \A i \in DrillMembers :
                     StablePlace(i) <= Len(drill_call.top_combinations)
                       => drill_call.top_combinations[StablePlace(i)]
                            = TagComboItem(DrillRows[i])

\* what the drilldown does give: the summary, min(top_n, member count) distinct
\* members in ascending risk_ratio order, none of them of higher risk_ratio than a
\* member left out, and NotFound for a cluster id without members
DrilldownAscending ==
    (drill_call.done /\ drill_call.file.exists) =>
        IF DrillMembers = {}
          THEN drill_call.error = "404 Cluster not found"
          ELSE LET top == drill_call.top_combinations
                   shown == {i \in DrillMembers :
                                \E k \in 1..Len(top) : top[k] = TagComboItem(DrillRows[i])}
               IN  /\ drill_call.error = ""
                   /\ DrillSummaryRight
                   /\ Len(top) = Min(drill_call.top_n, Cardinality(DrillMembers))
                   /\ Cardinality(shown) = Len(top)
                   /\ \A j, k \in 1..Len(top) :
                         j < k => Milli(top[j].risk_ratio) <= Milli(top[k].risk_ratio)
                   /\ \A i \in shown : \A k \in DrillMembers \ shown :
                         Milli(DrillRows[i].risk_ratio) <= Milli(DrillRows[k].risk_ratio)

DrilldownAscending_Witness ==
    /\ drill_call.done /\ drill_call.error = ""
    /\ Cardinality(DrillMembers) = 3
    /\ Len(drill_call.top_combinations) = 2
    /\ Len(DrillRows) = 4

\* C27: a request for cluster id -1, the noise label, yields NotFound, also when
\* the clusters table has rows labelled -1.
C27_NoiseNotFound ==
    (drill_call.done /\ drill_call.file.exists /\ drill_call.cluster_id = -1) =>
        drill_call.error = "404 Cluster not found"

\* what holds: the label -1 is served like any other; its rows are summarised and
\* listed, and NotFound is given only when the table has no row labelled -1
NoiseServedAsCluster ==
    (drill_call.done /\ drill_call.file.exists /\ drill_call.cluster_id = -1) =>
        IF DrillMembers = {}
          THEN drill_call.error = "404 Cluster not found"
          ELSE /\ drill_call.error = ""
               /\ drill_call.cluster.cluster = -1
               /\ drill_call.cluster.combos = Cardinality(DrillMembers)
               /\ Len(drill_call.top_combinations) >= 1

NoiseServedAsCluster_Witness ==
    /\ drill_call.done /\ drill_call.file.exists /\ drill_call.cluster_id = -1
    /\ drill_call.error = ""
    /\ drill_call.top_combinations[1].tag_combo = <<"s", "i", "m">>

(***************************************************************************)
(* The storage layer (backend/app/storage.py) and the artifacts the        *)
(* pipeline stages read and write                                          *)
(* A loaded table or list is "as_read" until a caller changes it in place, *)
(* and "mutated" from then on.                                             *)
(***************************************************************************)
Artifacts ==
    {"raw_csv", "games", "tag_month_stats", "tag_summary", "tag_complexity",
     "tag_combo_summary", "tag_risk_summary", "tag_combo_clusters", "market_archetypes"}

Loaders ==
    {"load_tag_combo_clusters", "load_market_archetypes", "load_tag_summary",
     "load_tag_month_stats", "load_tag_complexity", "load_games"}

\* the artifact each loader reads
LoaderArtifact(l) ==
    CASE l = "load_tag_combo_clusters" -> "tag_combo_clusters"
      [] l = "load_market_archetypes" -> "market_archetypes"
      [] l = "load_tag_summary" -> "tag_summary"
      [] l = "load_tag_month_stats" -> "tag_month_stats"
      [] l = "load_tag_complexity" -> "tag_complexity"
      [] l = "load_games" -> "games"

\* what the FileNotFoundError of each loader says: whether its text holds the
\* missing path, and whether it names what to run
LoaderMessage(l) ==
    CASE l = "load_tag_combo_clusters" -> [names_path |-> TRUE, names_stage |-> TRUE]
      [] l = "load_market_archetypes" -> [names_path |-> FALSE, names_stage |-> FALSE]
      [] l = "load_tag_summary" -> [names_path |-> TRUE, names_stage |-> TRUE]
      [] l = "load_tag_month_stats" -> [names_path |-> TRUE, names_stage |-> TRUE]
      [] l = "load_tag_complexity" -> [names_path |-> TRUE, names_stage |-> FALSE]
      [] l = "load_games" -> [names_path |-> TRUE, names_stage |-> TRUE]

\* whether the loader returns the cached object itself, not a copy of it
ReturnsCache(l) == l = "load_market_archetypes"

\* the caches clear_cache() sets to None
ClearedLoaders == {"load_tag_summary", "load_tag_month_stats", "load_tag_complexity"}

NoCache == [set |-> FALSE, value |-> ""]
NoHandle == [has |-> FALSE, loader |-> "", value |-> "", shared |-> FALSE]
\* from_disk: the call read the artifact; after_clear: it was the loader's first
\* call since a clear_cache()
NoOp ==
    [op |-> "none", name |-> "", status |-> "none", value |-> "",
     names_path |-> FALSE, names_stage |-> FALSE, wrote |-> FALSE,
     from_disk |-> FALSE, after_clear |-> FALSE]

\* a call of loader l; keep: the caller keeps the object it receives, to change it
Load(l, keep) ==
    LET path_exists == files[LoaderArtifact(l)]
        filled == IF cache[l].set THEN cache[l] ELSE [set |-> TRUE, value |-> "as_read"]
    IN  /\ IF ~cache[l].set /\ ~path_exists
              THEN /\ last_op' = [NoOp EXCEPT !.op = "load", !.name = l,
                                             !.status = "error",
                                             !.names_path = LoaderMessage(l).names_path,
                                             !.names_stage = LoaderMessage(l).names_stage]
                   /\ UNCHANGED <<cache, held>>
              ELSE /\ cache' = [cache EXCEPT ![l] = filled]
                   /\ last_op' = [NoOp EXCEPT !.op = "load", !.name = l, !.status = "ok",
                                             !.value = filled.value,
                                             !.from_disk = ~cache[l].set,
                                             !.after_clear = l \in uncalled_since_clear]
                   /\ IF keep
                         THEN held' = [has |-> TRUE, loader |-> l, value |-> filled.value,
                                       shared |-> ReturnsCache(l)]
                         ELSE UNCHANGED held
        /\ uncalled_since_clear' = uncalled_since_clear \ {l}
        /\ UNCHANGED files
        /\ UNCHANGED exceptStore

\* the caller changes the object it received, in place
Mutate ==
    /\ held.has /\ held.value = "as_read"
    /\ held' = [held EXCEPT !.value = "mutated"]
    /\ cache' = IF held.shared /\ cache[held.loader].set
                  THEN [cache EXCEPT ![held.loader].value = "mutated"]
                  ELSE cache
    /\ UNCHANGED <<files, last_op, uncalled_since_clear>>
    /\ UNCHANGED exceptStore

\* clear_cache(); an object that was the cache is the caller's alone from then on
ClearCache ==
    /\ \E l \in ClearedLoaders : cache[l].set
    /\ cache' = [l \in Loaders |-> IF l \in ClearedLoaders THEN NoCache ELSE cache[l]]
    /\ held' = IF held.has /\ held.loader \in ClearedLoaders
                 THEN [held EXCEPT !.shared = FALSE] ELSE held
    /\ uncalled_since_clear' = Loaders
    /\ UNCHANGED <<files, last_op>>
    /\ UNCHANGED exceptStore

\* ---- the pipeline stages ----
Stages ==
    {"ingest_csv_to_parquet", "build_tag_month_stats", "build_tag_summary",
     "build_tag_combo_summary", "build_tag_risk_summary", "cluster_tag_combinations",
     "analyze_clusters"}

\* the artifact a stage reads, the artifact it writes, and what it prints or raises
\* when the one it reads is missing
StageOf(s) ==
    CASE s = "ingest_csv_to_parquet" ->
            [input |-> "raw_csv", output |-> "games",
             names_path |-> TRUE, names_stage |-> TRUE]
      [] s = "build_tag_month_stats" ->
            [input |-> "games", output |-> "tag_month_stats",
             names_path |-> TRUE, names_stage |-> TRUE]
      [] s = "build_tag_summary" ->
            [input |-> "tag_month_stats", output |-> "tag_summary",
             names_path |-> TRUE, names_stage |-> TRUE]
      [] s = "build_tag_combo_summary" ->
            [input |-> "games", output |-> "tag_combo_summary",
             names_path |-> TRUE, names_stage |-> FALSE]
      [] s = "build_tag_risk_summary" ->
            [input |-> "games", output |-> "tag_risk_summary",
             names_path |-> TRUE, names_stage |-> FALSE]
      [] s = "cluster_tag_combinations" ->
            [input |-> "tag_combo_summary", output |-> "tag_combo_clusters",
             names_path |-> FALSE, names_stage |-> FALSE]
      [] s = "analyze_clusters" ->
            [input |-> "tag_combo_clusters", output |-> "market_archetypes",
             names_path |-> FALSE, names_stage |-> FALSE]

\* one run of stage s, to its end: without its input it stops before it writes
RunStage(s) ==
    LET st == StageOf(s)
    IN  /\ IF ~files[st.input]
              THEN /\ last_op' = [NoOp EXCEPT !.op = "stage", !.name = s,
                                             !.status = "error",
                                             !.names_path = st.names_path,
                                             !.names_stage = st.names_stage]
                   /\ UNCHANGED files
              ELSE /\ last_op' = [NoOp EXCEPT !.op = "stage", !.name = s, !.status = "ok",
                                             !.wrote = TRUE]
                   /\ files' = [files EXCEPT ![st.output] = TRUE]
        /\ UNCHANGED <<cache, held, uncalled_since_clear>>
        /\ UNCHANGED exceptStore

\* ---- the states that are explored ----
\* the server with every artifact built
StoreInit ==
    /\ files = [a \in Artifacts |-> TRUE]
    /\ cache = [l \in Loaders |-> NoCache]
    /\ held = NoHandle
    /\ last_op = NoOp
    /\ uncalled_since_clear = {}

\* the pipeline before its first run: the raw CSV and the complexity config are
\* there or not, nothing else is
PipelineInit ==
    /\ files \in {f \in [Artifacts -> BOOLEAN] :
                     \A a \in Artifacts \ {"raw_csv", "tag_complexity"} : ~f[a]}
    /\ cache = [l \in Loaders |-> NoCache]
    /\ held = NoHandle
    /\ last_op = NoOp
    /\ uncalled_since_clear = {}

StoreIdle ==
    /\ files = [a \in Artifacts |-> FALSE]
    /\ cache = [l \in Loaders |-> NoCache]
    /\ held = NoHandle
    /\ last_op = NoOp
    /\ uncalled_since_clear = {}

\* ---- what the claims speak of ----
\* C15: whatever callers did to the values they received, the value a loader
\* returns is the table as read from disk, for each of the six loaders.
C15_CopyOnRead ==
    /\ (last_op.op = "load" /\ last_op.status = "ok") => last_op.value = "as_read"
    /\ \A l \in Loaders : cache[l].set => cache[l].value = "as_read"

\* the five loaders that return a copy do have copy-on-read semantics
CopyOnReadOfCopies ==
    /\ ( /\ last_op.op = "load" /\ last_op.status = "ok"
         /\ last_op.name # "load_market_archetypes" ) => last_op.value = "as_read"
    /\ \A l \in Loaders \ {"load_market_archetypes"} :
          cache[l].set => cache[l].value = "as_read"

CopyOnReadOfCopies_Witness ==
    /\ held.has /\ held.value = "mutated" /\ held.loader = "load_tag_summary"
    /\ last_op.op = "load" /\ last_op.name = "load_tag_summary"
    /\ last_op.value = "as_read"

\* C23: the first call of each of the six cached loaders after a clear_cache()
\* reads its artifact from disk; it never returns what was cached before the clear.
C23_ClearCacheClearsAll ==
    (last_op.op = "load" /\ last_op.status = "ok" /\ last_op.after_clear) =>
        last_op.from_disk

\* what holds: clear_cache() makes the loaders of the tag summary, the tag month
\* stats and the tag complexity read their artifact again
ClearCacheClearsThree ==
    ( /\ last_op.op = "load" /\ last_op.status = "ok" /\ last_op.after_clear
      /\ last_op.name \in {"load_tag_summary", "load_tag_month_stats", "load_tag_complexity"} )
        => last_op.from_disk

ClearCacheClearsThree_Witness ==
    /\ last_op.op = "load" /\ last_op.name = "load_tag_complexity"
    /\ last_op.after_clear /\ last_op.from_disk
    /\ cache["load_games"].set
    /\ "load_games" \in uncalled_since_clear

\* C17: a stage or a loader called while its input artifact is missing ends in an
\* error that names the missing path and what to run; it writes nothing and leaves
\* the cache unset, and a loader called once the artifact exists succeeds.
C17_MissingArtifact ==
    /\ last_op.status = "error" =>
          /\ last_op.names_path /\ last_op.names_stage
          /\ ~last_op.wrote
          /\ last_op.op = "load" =>
                ~cache[last_op.name].set /\ ~files[LoaderArtifact(last_op.name)]
          /\ last_op.op = "stage" =>
                ~files[StageOf(last_op.name).input]
    /\ \A l \in Loaders : cache[l].set => files[LoaderArtifact(l)]

\* what does hold of a missing artifact: the call stops in an error, writes nothing
\* and fills no cache, and a loader fails only while its artifact is missing
MissingArtifactStops ==
    /\ last_op.status = "error" =>
          /\ ~last_op.wrote
          /\ last_op.op = "load" =>
                ~cache[last_op.name].set /\ ~files[LoaderArtifact(last_op.name)]
          /\ last_op.op = "stage" =>
                ~files[StageOf(last_op.name).input]
    /\ \A l \in Loaders : cache[l].set => files[LoaderArtifact(l)]

MissingArtifactStops_Witness ==
    /\ last_op.op = "load" /\ last_op.status = "ok"
    /\ last_op.name = "load_tag_combo_clusters"
    /\ ~files["market_archetypes"]

(***************************************************************************)
(* scripts/ingest_csv_to_parquet.py: the cells of release_date and         *)
(* total_reviews                                                           *)
(* A cell is what read_csv hands to apply(): a missing value (NaN), an     *)
(* integer, a float (finite ones counted in tenths) or a string.           *)
(***************************************************************************)
\* pd.isna(value)
pd_isna(cell) == cell.kind \in {"nan", "none"}

\* float(value): a value (finite, nan or inf), or the exception raised
py_float(cell) ==
    CASE cell.kind \in {"int", "float", "str_number"} ->
            [raised |-> "", is |-> "finite", tenths |-> cell.tenths]
      [] cell.kind \in {"inf", "str_inf"} -> [raised |-> "", is |-> "inf", tenths |-> 0]
      [] cell.kind = "str_nan" -> [raised |-> "", is |-> "nan", tenths |-> 0]
      [] cell.kind = "none" -> [raised |-> "TypeError", is |-> "", tenths |-> 0]
      [] OTHER -> [raised |-> "ValueError", is |-> "", tenths |-> 0]

\* int(f) of a float: truncation towards zero; nan and inf raise
py_int(f) ==
    CASE f.is = "finite" ->
            [raised |-> "",
             value |-> IF f.tenths >= 0 THEN f.tenths \div 10 ELSE -((-f.tenths) \div 10)]
      [] f.is = "nan" -> [raised |-> "ValueError", value |-> 0]
      [] OTHER -> [raised |-> "OverflowError", value |-> 0]

\* coerce_int(value, default): the integer returned, or the exception that escapes
coerce_int(value, default) ==
    IF pd_isna(value) THEN [raised |-> "", value |-> default]
    ELSE LET f == py_float(value)
             n == IF f.raised = "" THEN py_int(f) ELSE [raised |-> f.raised, value |-> 0]
         IN  IF n.raised \in {"ValueError", "TypeError"}
               THEN [raised |-> "", value |-> default]
               ELSE n

\* date_parser.parse(date_str, fuzzy=True): a date, or ValueError (ParserError),
\* TypeError or OverflowError
dateutil_parse(cell) ==
    CASE cell.kind = "str_date" -> [raised |-> "", day |-> cell.tenths]
      [] cell.kind = "str_huge" -> [raised |-> "OverflowError", day |-> 0]
      [] OTHER -> [raised |-> "ValueError", day |-> 0]

NullDate == [null |-> TRUE, day |-> 0]

\* parse_release_date(date_str): a date or None
parse_release_date(date_str) ==
    IF pd_isna(date_str) \/ date_str.kind = "str_empty" THEN NullDate
    ELSE LET parsed == dateutil_parse(date_str)
         IN  IF parsed.raised \in {"ValueError", "TypeError", "OverflowError"}
               THEN NullDate
               ELSE [null |-> FALSE, day |-> parsed.day]

\* the columns main() adds to one row
IngestRow(row) ==
    LET reviews == coerce_int(row.total_reviews, 0)
    IN  [raised |-> reviews.raised,
         release_date_parsed |-> parse_release_date(row.release_date),
         total_reviews |-> reviews.value,
         success |-> IF reviews.value >= 100 THEN 1 ELSE 0]

\* ---- the runs that are explored ----
MaxIngestRows == 2

Cell(kind, tenths) == [kind |-> kind, tenths |-> tenths]

ReviewCells ==
    { Cell("nan", 0), Cell("int", 1500), Cell("int", 990), Cell("float", 1009),
      Cell("float", -5), Cell("inf", 0), Cell("str_number", 1000), Cell("str_text", 0),
      Cell("str_nan", 0), Cell("str_inf", 0) }

DateCells ==
    { Cell("nan", 0), Cell("str_empty", 0), Cell("str_date", 20240131),
      Cell("str_text", 0), Cell("str_huge", 0) }

CsvRows == [release_date : DateCells, total_reviews : ReviewCells]

IngestInit ==
    ingest_call \in [rows : ListsUpTo(CsvRows, MaxIngestRows), status : {"start"},
                     games : {<<>>}]

IngestIdle == ingest_call = [rows |-> <<>>, status |-> "idle", games |-> <<>>]

\* main(): the two apply() calls over the columns, then the games table is written;
\* an exception out of a cell ends the run before anything is written
RunIngest ==
    /\ ingest_call.status = "start"
    /\ LET out == [i \in 1..Len(ingest_call.rows) |-> IngestRow(ingest_call.rows[i])]
           raised == {i \in 1..Len(out) : out[i].raised # ""}
       IN  ingest_call' =
               IF raised = {}
                 THEN [ingest_call EXCEPT !.status = "written", !.games = out]
                 ELSE [ingest_call EXCEPT
                          !.status = out[CHOOSE i \in raised : \A j \in raised : i <= j].raised]
    /\ UNCHANGED exceptIngest

\* ---- what the claim speaks of ----
\* review counts that are no integer: missing, text, NaN, infinite
Uncoercible(cell) == cell.kind \in {"nan", "none", "str_text", "str_nan", "inf", "str_inf"}
\* dates that cannot be parsed
Unparsable(cell) == cell.kind \in {"nan", "none", "str_empty", "str_text", "str_huge"}

\* C18: ingestion does not fail on a malformed cell: every review count that cannot
\* be made an integer (missing, text, NaN, infinite) becomes 0 and every release
\* date that cannot be parsed becomes a null date.
C18_IngestNeverFails ==
    ingest_call.status # "start" =>
        /\ ingest_call.status = "written"
        /\ Len(ingest_call.games) = Len(ingest_call.rows)
        /\ \A i \in 1..Len(ingest_call.games) :
              /\ Uncoercible(ingest_call.rows[i].total_reviews)
                   => ingest_call.games[i].total_reviews = 0
              /\ Unparsable(ingest_call.rows[i].release_date)
                   => ingest_call.games[i].release_date_parsed.null

\* what holds: without an infinite review count the run is written, with 0 for
\* every other count that is no integer and a null date for every unparsable date
IngestCoercesFinite ==
    ( /\ ingest_call.status # "start"
      /\ \A i \in 1..Len(ingest_call.rows) :
            ingest_call.rows[i].total_reviews.kind \notin {"inf", "str_inf"} ) =>
        /\ ingest_call.status = "written"
        /\ Len(ingest_call.games) = Len(ingest_call.rows)
        /\ \A i \in 1..Len(ingest_call.games) :
              /\ Uncoercible(ingest_call.rows[i].total_reviews)
                   => ingest_call.games[i].total_reviews = 0
              /\ Unparsable(ingest_call.rows[i].release_date)
                   => ingest_call.games[i].release_date_parsed.null

IngestCoercesFinite_Witness ==
    /\ ingest_call.status = "written"
    /\ Len(ingest_call.rows) = 2
    /\ ingest_call.rows[1].total_reviews.kind = "str_nan"
    /\ ingest_call.rows[1].release_date.kind = "str_huge"
    /\ ingest_call.rows[2].total_reviews = Cell("float", -5)
    /\ ingest_call.games[2].total_reviews = 0

(***************************************************************************)
(* scripts/cluster_tag_combinations.py                                     *)
(* A number of the summary table is finite, NaN, inf or -inf.              *)
(***************************************************************************)
features ==
    <<"risk_ratio", "trend_delta", "publisher_dependency", "weighted_released",
      "weighted_profitable", "combo_size">>

\* replace([np.inf, -np.inf], np.nan) on one number
InfToNan(x) == IF x.is \in {"inf", "-inf"} THEN [is |-> "nan", v |-> 0] ELSE x

\* a filter that drops the rows with a NaN and keeps those with an infinity
KeptIndex_nan_only(df) ==
    [i \in {k \in 1..Len(df) : \A c \in Range(features) : df[k][c].is # "nan"} |-> i]

\* df_feat.replace(...).dropna().index: the row labels left, as a set kept in order
KeptIndex(df) ==
    [i \in {k \in 1..Len(df) : \A c \in Range(features) : InfToNan(df[k][c]).is # "nan"}
        |-> i]

\* the elements of a set of integers in ascending order
RECURSIVE Ascending(_)
Ascending(S) ==
    IF S = {} THEN <<>>
    ELSE LET m == CHOOSE x \in S : \A y \in S : x <= y
         IN  <<m>> \o Ascending(S \ {m})

\* df.loc[df_feat.index].reset_index(drop=True)
LocRows(df, index) ==
    LET at == Ascending(DOMAIN index)
    IN  [i \in 1..Len(at) |-> df[at[i]]]

\* df["cluster"] = labels: every column of the row, and the label
WithCluster(row, label) ==
    [tag_combo |-> row.tag_combo, risk_ratio |-> row.risk_ratio,
     trend_delta |-> row.trend_delta,
     publisher_dependency |-> row.publisher_dependency,
     weighted_released |-> row.weighted_released,
     weighted_profitable |-> row.weighted_profitable,
     combo_size |-> row.combo_size, cluster |-> label]

\* the label arrays fit_predict may return for n rows: one label per row, -1 for
\* noise
MaxLabel == 1
LabelArrays(n) == [1..n -> -1..MaxLabel]

\* ---- the runs that are explored ----
MaxSummaryRows == 3

Num(v) == [is |-> "finite", v |-> v]
NotFinite(kind) == [is |-> kind, v |-> 0]

FeatureRow(combo, risk, trend, pub, released, profitable, size) ==
    [tag_combo |-> combo, risk_ratio |-> risk, trend_delta |-> trend,
     publisher_dependency |-> pub, weighted_released |-> released,
     weighted_profitable |-> profitable, combo_size |-> size]

FeatureRowPool ==
    { FeatureRow("rpg", Num(2000), Num(100), Num(500), Num(9000), Num(4500), Num(1)),
      FeatureRow("rts", Num(3000), Num(-200), Num(0), Num(12000), Num(4000), Num(1)),
      FeatureRow("rpg,rts", NotFinite("nan"), Num(0), Num(0), Num(8000), Num(0), Num(2)),
      FeatureRow("sim", Num(4000), NotFinite("inf"), Num(0), Num(8000), Num(2000), Num(1)),
      FeatureRow("mis", Num(1000), Num(0), Num(0), Num(8000), NotFinite("-inf"), Num(1)) }

ClusterInit ==
    cluster_call \in [summary : DistinctSeqs(FeatureRowPool, MaxSummaryRows),
                      status : {"start"}, labels : {<<>>}, out : {<<>>}]

ClusterIdle ==
    cluster_call = [summary |-> <<>>, status |-> "idle", labels |-> <<>>, out |-> <<>>]

\* main() with the summary present: the rows with six finite features are scaled
\* and labelled, and the table is written with the labels. Scaling a table of no
\* rows raises; the clusterer may raise as well.
RunClusterer ==
    /\ cluster_call.status = "start"
    /\ LET df == LocRows(cluster_call.summary, KeptIndex(cluster_call.summary))
       IN  \/ /\ Len(df) > 0
              /\ \E labels \in LabelArrays(Len(df)) :
                    cluster_call' =
                        [cluster_call EXCEPT
                            !.status = "written", !.labels = labels,
                            !.out = [i \in 1..Len(df) |-> WithCluster(df[i], labels[i])]]
           \/ cluster_call' = [cluster_call EXCEPT !.status = "failed"]
    /\ UNCHANGED exceptCluster

\* ---- what the claim speaks of ----
AllFinite(row) ==
    /\ row.risk_ratio.is = "finite" /\ row.trend_delta.is = "finite"
    /\ row.publisher_dependency.is = "finite" /\ row.weighted_released.is = "finite"
    /\ row.weighted_profitable.is = "finite" /\ row.combo_size.is = "finite"

\* a row of the output without its label
WithoutCluster(r) ==
    FeatureRow(r.tag_combo, r.risk_ratio, r.trend_delta, r.publisher_dependency,
               r.weighted_released, r.weighted_profitable, r.combo_size)

\* C19: the table written holds exactly the summary rows whose six features are all
\* finite, in their order, every column as it was, each with the integer label
\* computed for it (-1 for noise); a row with a NaN or an infinite feature is not
\* in it.
C19_ClusterOutputRows ==
    cluster_call.status = "written" =>
        LET finite == SelectSeq(cluster_call.summary, AllFinite)
            out == cluster_call.out
        IN  /\ Len(out) = Len(finite)
            /\ Len(cluster_call.labels) = Len(out)
            /\ \A i \in 1..Len(out) :
                  /\ WithoutCluster(out[i]) = finite[i]
                  /\ out[i].cluster = cluster_call.labels[i]
                  /\ out[i].cluster \in Int /\ out[i].cluster >= -1
                  /\ AllFinite(out[i])

C19_Witness ==
    /\ cluster_call.status = "written"
    /\ Len(cluster_call.summary) = 3
    /\ ~AllFinite(cluster_call.summary[2])
    /\ Len(cluster_call.out) = 2
    /\ cluster_call.out[1].cluster = -1
    /\ cluster_call.out[2].cluster = 1
    /\ WithoutCluster(cluster_call.out[2]) = cluster_call.summary[3]

(***************************************************************************)
(* The tags of one title, from the cell of the CSV to the combination keys *)
(* (parse_tags of scripts/ingest_csv_to_parquet.py, then the scan of       *)
(* scripts/build_tag_combo_summary.py)                                     *)
(* A cell of the tags column is missing (NaN), a text that json.loads      *)
(* turns into a list (its elements strings or null), or any other text.    *)
(***************************************************************************)
\* bool(t) of a JSON element: null and "" are false
Truthy(e) == e.t = "str" /\ e.val # <<>>

\* a tag list without its empty strings
NonEmptyTags(q) == SelectSeq(q, LAMBDA t : t # <<>>)

\* parse_tags(tags_str)
parse_tags(cell) ==
    IF cell.kind = "nan" \/ (cell.kind = "text" /\ cell.val = <<>>) THEN <<>>
    ELSE IF cell.kind = "json"
        THEN LET kept == SelectSeq(cell.val, Truthy)
             IN  [i \in 1..Len(kept) |-> StrStrip(kept[i].val)]
    ELSE LET pieces == StrSplit(StrStrip(cell.val), ",")
         IN  NonEmptyTags([i \in 1..Len(pieces) |-> StrStrip(pieces[i])])

\* tags_parsed of the games table as the summary script reads it back
TagsParsedField(cell) == [kind |-> "list", val |-> parse_tags(cell)]

\* the row of the games table made from the cell, a recent profitable title
TitleRow(cell) ==
    [tags_parsed |-> TagsParsedField(cell), time_weight |-> 2, is_profitable |-> 1,
     release |-> [null |-> FALSE, months_ago |-> 1], has_publisher |-> 1]

\* ---- the cells that are explored ----
MaxCellTags == 3

JsonElements ==
    {[t |-> "str", val |-> v] :
        v \in {<<"R", "P", "G">>, <<"r", "p", "g">>, <<" ", "R", "t", "s">>, <<" ">>, <<>>}}
      \cup {[t |-> "null", val |-> <<>>]}

\* seven distinct tags, with a blank and a repeated tag among them
LongJsonLists ==
    { [i \in 1..9 |-> [t |-> "str",
                      val |-> << <<"r">>, <<" ">>, <<"p">>, <<"g">>, <<"R">>, <<"s">>,
                                 <<"i">>, <<"m">>, <<"o">> >>[i]]] }

TagCells ==
    {[kind |-> "json", val |-> q] : q \in ListsUpTo(JsonElements, MaxCellTags) \cup LongJsonLists}
      \cup {[kind |-> "nan", val |-> <<>>], [kind |-> "text", val |-> <<>>],
            [kind |-> "text", val |-> <<" ", ",", " ">>],
            [kind |-> "text", val |-> <<"R", "P", "G", ",", " ", "r", "t", "s", ",", ",", "r", "p", "g">>]}

TagsInit ==
    tag_call \in [cell : TagCells, done : {FALSE}, tags : {<<>>}, keys : {{}},
                  agg_before : {EmptyAgg, [k \in {<<"r", "p", "g">>} |-> ZeroAgg]},
                  agg_after : {EmptyAgg}]

TagsIdle ==
    tag_call = [cell |-> [kind |-> "nan", val |-> <<>>], done |-> FALSE, tags |-> <<>>,
                keys |-> {}, agg_before |-> EmptyAgg, agg_after |-> EmptyAgg]

\* the title is ingested, and scanned by the loop over df
IngestAndScanTitle ==
    /\ ~tag_call.done
    /\ tag_call' = [tag_call EXCEPT
                       !.done = TRUE,
                       !.tags = NormalizeComboTags(TagsParsedField(tag_call.cell)),
                       !.keys = TitleKeys(TagsParsedField(tag_call.cell)),
                       !.agg_after = ScanOne(tag_call.agg_before, TitleRow(tag_call.cell))]
    /\ UNCHANGED exceptTags

\* ---- what the claim speaks of ----
\* the tags written in the cell: the strings of a list, the pieces of a text
CellTexts(cell) ==
    IF cell.kind = "nan" THEN <<>>
    ELSE IF cell.kind = "json"
        THEN LET strs == SelectSeq(cell.val, LAMBDA e : e.t = "str")
             IN  [i \in 1..Len(strs) |-> strs[i].val]
    ELSE StrSplit(cell.val, ",")

\* each of them lowercased and stripped, the blank ones left out
CleanTexts(cell) ==
    NonEmptyTags([i \in 1..Len(CellTexts(cell)) |-> StrStrip(StrLower(CellTexts(cell)[i]))])

\* the position at which t first occurs in q
FirstAt(q, t) == CHOOSE i \in 1..Len(q) : q[i] = t /\ \A j \in 1..(i - 1) : q[j] # t

\* C25: the tags a title is enumerated with are its tags lowercased and stripped,
\* each once, in the order of first occurrence, and only the first 6 of them; none
\* is empty, so no key holds an empty tag; a title whose tag field is missing, empty
\* or holds only blank tags gives no key and leaves every aggregate as it was.
C25_TagsNormalized ==
    tag_call.done =>
        LET clean == CleanTexts(tag_call.cell)
            tags == tag_call.tags
        IN  /\ Len(tags) = Min(6, Cardinality(Range(clean)))
            /\ \A i \in 1..Len(tags) :
                  /\ tags[i] # <<>> /\ tags[i] \in Range(clean)
                  /\ \A j \in 1..Len(tags) : tags[j] = tags[i] => j = i
                  /\ Cardinality({t \in Range(clean) : FirstAt(clean, t) < FirstAt(clean, tags[i])})
                       = i - 1
            /\ \A k \in tag_call.keys :
                  \E at \in SUBSET (1..Len(tags)) :
                      at # {} /\ k = StrJoin(<<",">>, Pick(tags, 1, at))
            /\ Range(clean) = {} =>
                  tag_call.keys = {} /\ tag_call.agg_after = tag_call.agg_before

C25_Witness ==
    /\ tag_call.done
    /\ tag_call.cell.kind = "json" /\ Len(tag_call.cell.val) = 2
    /\ \A i \in 1..2 : tag_call.cell.val[i] = [t |-> "str", val |-> <<" ">>]
    /\ parse_tags(tag_call.cell) = << <<>>, <<>> >>
    /\ tag_call.tags = <<>> /\ tag_call.keys = {}
    /\ tag_call.agg_after = [k \in {<<"r", "p", "g">>} |-> ZeroAgg]

\* ---- one title scanned into an aggregate ----
ScanCells ==
    { [kind |-> "json", val |-> << [t |-> "str", val |-> <<"R", "P", "G">>],
                                   [t |-> "str", val |-> <<"r", "t", "s">>] >>],
      [kind |-> "json", val |-> << [t |-> "str", val |-> <<"r", "p", "g">>],
                                   [t |-> "str", val |-> <<"R", "P", "G">>] >>],
      [kind |-> "json", val |-> << [t |-> "str", val |-> <<"r", ",", "p">>],
                                   [t |-> "str", val |-> <<"r">>],
                                   [t |-> "str", val |-> <<"p">>] >>],
      [kind |-> "json", val |-> << [t |-> "str", val |-> <<" ">>] >>],
      [kind |-> "nan", val |-> <<>>] }
      \cup {[kind |-> "json", val |-> q] : q \in LongJsonLists}

\* the aggregate before the title: empty, or with counters from earlier titles
EarlierAgg ==
    [k \in {<<"r", "p", "g">>, <<"r", ",", "p">>, <<"s", "i", "m">>} |->
        [released_w |-> 5, profitable_w |-> 3, recent_released_w |-> 2,
         recent_profitable_w |-> 2, pub_prof |-> 1, nopub_prof |-> 1]]

ScanInit ==
    scan_call \in
        [row : {[tags_parsed |-> TagsParsedField(c), time_weight |-> w, is_profitable |-> p,
                 release |-> rel, has_publisher |-> hp] :
                   c \in ScanCells, w \in {1, 2}, p \in {0, 1}, hp \in {0, 1},
                   rel \in {[null |-> TRUE, months_ago |-> 0]}
                             \cup {[null |-> FALSE, months_ago |-> m] : m \in {1, 24, 25}}},
         agg_before : {EmptyAgg, EarlierAgg},
         agg_after : {EmptyAgg},
         done : {FALSE}]

ScanIdle ==
    scan_call = [row |-> TitleRow([kind |-> "nan", val |-> <<>>]), agg_before |-> EmptyAgg,
                 agg_after |-> EmptyAgg, done |-> FALSE]

\* one iteration of the loop over df.iterrows(), lines 68-110
ScanTitle ==
    /\ ~scan_call.done
    /\ scan_call' = [scan_call EXCEPT !.done = TRUE,
                                      !.agg_after = ScanOne(scan_call.agg_before, scan_call.row)]
    /\ UNCHANGED exceptScan

\* ---- what the claim speaks of ----
\* the normalized tag list T of the scanned title, and its sub-tuples of size
\* 1..min(max combo size, |T|), by position
ScanT == NormalizeComboTags(scan_call.row.tags_parsed)
ScanSubsets == {at \in SUBSET (1..Len(ScanT)) : Cardinality(at) \in 1..Min(2, Len(ScanT))}
SubsetKey(at) == StrJoin(<<",">>, Pick(ScanT, 1, at))

\* the counters of key k before the title
Before(k) == IF k \in DOMAIN scan_call.agg_before THEN scan_call.agg_before[k] ELSE ZeroAgg

\* the counters b are the counters a after n updates by the scanned title
UpdatedTimes(a, b, n) ==
    LET w == scan_call.row.time_weight
        p == scan_call.row.is_profitable
        recent == ~scan_call.row.release.null /\ scan_call.row.release.months_ago <= 24
    IN  /\ b.released_w = a.released_w + n * w
        /\ b.profitable_w = a.profitable_w + n * w * p
        /\ b.recent_released_w = a.recent_released_w + (IF recent THEN n * w ELSE 0)
        /\ b.recent_profitable_w = a.recent_profitable_w + (IF recent THEN n * w * p ELSE 0)
        /\ b.pub_prof = a.pub_prof + (IF scan_call.row.has_publisher = 1 THEN n * p ELSE 0)
        /\ b.nopub_prof = a.nopub_prof + (IF scan_call.row.has_publisher = 1 THEN 0 ELSE n * p)

\* C24: a scanned title updates exactly the keys of the sub-tuples of its tag list of
\* size 1..min(max combo size, |T|), each key once: released_w by w, profitable_w by
\* w*p, the recent counters by the same only when released in the last 24 months
\* (not for a null date), pub_prof by p with a publisher and nopub_prof by p
\* without; every other key keeps its counters.
C24_ScanUpdatesEachKeyOnce ==
    scan_call.done =>
        LET keys == {SubsetKey(at) : at \in ScanSubsets}
            after == scan_call.agg_after
        IN  /\ DOMAIN after = DOMAIN scan_call.agg_before \cup keys
            /\ \A k \in keys : UpdatedTimes(Before(k), after[k], 1)
            /\ \A k \in DOMAIN after \ keys : after[k] = scan_call.agg_before[k]

\* what holds: each sub-tuple updates its key once, so a key that two sub-tuples
\* join to is updated twice; a title none of whose tags holds a comma updates each
\* of its keys once
ScanUpdatesEachSubsetOnce ==
    scan_call.done =>
        LET keys == {SubsetKey(at) : at \in ScanSubsets}
            after == scan_call.agg_after
            times(k) == Cardinality({at \in ScanSubsets : SubsetKey(at) = k})
        IN  /\ DOMAIN after = DOMAIN scan_call.agg_before \cup keys
            /\ \A k \in keys : UpdatedTimes(Before(k), after[k], times(k))
            /\ \A k \in DOMAIN after \ keys : after[k] = scan_call.agg_before[k]
            /\ (\A i \in 1..Len(ScanT) : "," \notin Range(ScanT[i])) =>
                  \A k \in keys : times(k) = 1

ScanUpdatesEachSubsetOnce_Witness ==
    /\ scan_call.done
    /\ ScanT = << <<"r", ",", "p">>, <<"r">>, <<"p">> >>
    /\ scan_call.agg_before = EarlierAgg
    /\ scan_call.row.time_weight = 2 /\ scan_call.row.is_profitable = 1
    /\ scan_call.agg_after[<<"r", ",", "p">>].released_w = 5 + 4
    /\ scan_call.agg_after[<<"r">>].released_w = 2

(***************************************************************************)
(* mock_predict_tags (backend/app/ml_mock.py)                              *)
(* Archetype averages are counted in thousandths, scores in units of       *)
(* 1/2000, probabilities are fractions score / total.                      *)
(***************************************************************************)
\* the namespace with the loader imported from storage.py
MlMockGlobals_imported ==
    {"load_market_archetypes", "hashlib", "random", "List", "Tuple", "_seed_from_inputs",
     "mock_predict_tags"}

\* the names bound in the module namespace of ml_mock.py: its imports and its defs
MlMockGlobals == {"hashlib", "random", "List", "Tuple", "_seed_from_inputs", "mock_predict_tags"}

\* {t.lower().strip() for t in preferred_genres if t}
PreferredSet(preferred_genres) ==
    {StrStrip(StrLower(t)) : t \in {x \in Range(preferred_genres) : x # <<>>}}

\* any(t.strip().lower() in preferred for t in combo["tags"].split(","))
ComboPreferred(tags, preferred) ==
    \E t \in Range(StrSplit(tags, ",")) : StrLower(StrStrip(t)) \in preferred

\* the score of one archetype, lines 30-48
ArchetypeScore(arch, preferred, team_size, art_heavy_level, built_count) ==
    LET combos == arch.top_tag_combinations
    IN  Max(0, 2 * (5000 - arch.avg_risk))
          + 4 * arch.avg_trend
          - (IF team_size <= 3 /\ arch.avg_combo_size > 2000 THEN 2000 ELSE 0)
          - (IF art_heavy_level >= 7 THEN arch.avg_combo_size ELSE 0)
          - (IF built_count = 0 THEN 4 * arch.avg_publisher_dependency ELSE 0)
          + 3000 * Cardinality({i \in 1..Len(combos) : ComboPreferred(combos[i], preferred)})

\* scored.sort(key=lambda x: x[1], reverse=True): stable, highest score first
RECURSIVE SortedByScoreDesc(_)
SortedByScoreDesc(scored) ==
    IF scored = <<>> THEN <<>>
    ELSE LET i == CHOOSE j \in 1..Len(scored) :
                      /\ \A m \in 1..Len(scored) : scored[m].score <= scored[j].score
                      /\ \A m \in 1..(j - 1) : scored[m].score < scored[j].score
         IN  <<scored[i]>> \o
               SortedByScoreDesc(SubSeq(scored, 1, i - 1) \o SubSeq(scored, i + 1, Len(scored)))

\* the inner loop of lines 56-59
RECURSIVE TakeCombos(_, _, _, _)
TakeCombos(combos, sc, results, top_n) ==
    IF combos = <<>> THEN results
    ELSE LET r == Append(results, [tags |-> Head(combos), v |-> sc])
         IN  IF Len(r) >= top_n THEN r ELSE TakeCombos(Tail(combos), sc, r, top_n)

\* the outer loop of lines 55-61
RECURSIVE TakeArchetypes(_, _, _)
TakeArchetypes(scored, results, top_n) ==
    IF scored = <<>> THEN results
    ELSE LET r == TakeCombos(Head(scored).arch.top_tag_combinations, Head(scored).score,
                             results, top_n)
         IN  IF Len(r) >= top_n THEN r ELSE TakeArchetypes(Tail(scored), r, top_n)

\* lines 25-64, given the archetype list
MockPredictBody(archetypes, preferred_genres, team_size, built_count, art_heavy_level, top_n) ==
    LET preferred == PreferredSet(preferred_genres)
        scored == [i \in 1..Len(archetypes) |->
                      [arch |-> archetypes[i],
                       score |-> ArchetypeScore(archetypes[i], preferred, team_size,
                                                art_heavy_level, built_count)]]
        results == TakeArchetypes(SortedByScoreDesc(scored), <<>>, top_n)
        sum == SeqSum([i \in 1..Len(results) |-> results[i].v])
        total == IF sum # 0 THEN sum ELSE 2000
    IN  [i \in 1..Len(results) |->
            [tags |-> results[i].tags, prob |-> [num |-> results[i].v, den |-> total]]]

\* one call: line 23 looks load_market_archetypes up in the module namespace
mock_predict_tags(archetypes, preferred_genres, team_size, built_count, art_heavy_level, top_n) ==
    IF "load_market_archetypes" \in MlMockGlobals
        THEN [raised |-> "",
              ret |-> MockPredictBody(archetypes, preferred_genres, team_size, built_count,
                                      art_heavy_level, top_n)]
        ELSE [raised |-> "NameError", ret |-> <<>>]

\* ---- the calls that are explored ----
MaxArchetypes == 2

ArchetypePool ==
    { [avg_risk |-> 1500, avg_trend |-> 200, avg_combo_size |-> 2500,
       avg_publisher_dependency |-> 100,
       top_tag_combinations |-> << <<"r", "p", "g">>, <<"r", "p", "g", ",", "r", "t", "s">> >>],
      [avg_risk |-> 5000, avg_trend |-> 0, avg_combo_size |-> 1000,
       avg_publisher_dependency |-> 0,
       top_tag_combinations |-> << <<"s", "i", "m">> >>],
      [avg_risk |-> 4800, avg_trend |-> -300, avg_combo_size |-> 2000,
       avg_publisher_dependency |-> 400,
       top_tag_combinations |-> << <<"r", "t", "s">> >>] }

MockInit ==
    mock_call \in
        [archetypes : ListsUpTo(ArchetypePool, MaxArchetypes),
         preferred_genres : {<<>>, << <<"R", "P", "G">> >>, << <<>>, <<" ", "r", "t", "s">> >>},
         team_size : {1, 4},
         built_count : {0, 1},
         art_heavy_level : {0, 7},
         top_n : {0, 1, 10},
         done : {FALSE},
         first : {[raised |-> "", ret |-> <<>>]},
         second : {[raised |-> "", ret |-> <<>>]}]

MockIdle ==
    mock_call = [archetypes |-> <<>>, preferred_genres |-> <<>>, team_size |-> 1,
                 built_count |-> 0, art_heavy_level |-> 0, top_n |-> 0, done |-> FALSE,
                 first |-> [raised |-> "", ret |-> <<>>],
                 second |-> [raised |-> "", ret |-> <<>>]]

\* two calls with the same inputs and the same archetypes file
CallMock ==
    /\ ~mock_call.done
    /\ LET c == mock_call
           out == mock_predict_tags(c.archetypes, c.preferred_genres, c.team_size,
                                    c.built_count, c.art_heavy_level, c.top_n)
       IN  mock_call' = [c EXCEPT !.done = TRUE, !.first = out, !.second = out]
    /\ UNCHANGED exceptMock

\* ---- what the claim speaks of ----
\* the numerators of the probabilities of a returned list
ProbSum(ret) == SeqSum([i \in 1..Len(ret) |-> ret[i].prob.num])

\* C22: mock_predict_tags returns at most top_n (tag combination, probability)
\* pairs, whose probabilities sum to 1 whenever a pair is returned, and two calls
\* with the same inputs and archetypes return the same list.
C22_MockProbabilities ==
    mock_call.done =>
        /\ mock_call.first.raised = ""
        /\ Len(mock_call.first.ret) <= mock_call.top_n
        /\ mock_call.first.ret # <<>> =>
              ProbSum(mock_call.first.ret) = mock_call.first.ret[1].prob.den
        /\ mock_call.second = mock_call.first

\* what holds instead: every call ends in NameError and returns nothing
MockAlwaysRaises ==
    mock_call.done =>
        /\ mock_call.first = [raised |-> "NameError", ret |-> <<>>]
        /\ mock_call.second = mock_call.first

MockAlwaysRaises_Witness ==
    /\ mock_call.done
    /\ Len(mock_call.archetypes) = 2
    /\ mock_call.top_n = 10
    /\ mock_call.first.raised = "NameError"

(***************************************************************************)
(* The response store (backend/app/response_store.py) under concurrent     *)
(* callers. A statement of save_trend_response is one step of its thread;  *)
(* dict.get is one step.                                                   *)
(***************************************************************************)
Threads == {"t1", "t2"}

\* None, as a record
NoRecord == [response_id |-> 0, chat_response |-> "", action_step_plan |-> ""]

\* TrendResponseRecord(response_id=rid, chat_response=..., action_step_plan=...)
TrendResponseRecord(rid, chat, plan) ==
    [response_id |-> rid, chat_response |-> chat, action_step_plan |-> plan]

EmptyStore == [k \in {} |-> NoRecord]

\* _store[rid] = rec
StorePut(store, rid, rec) ==
    [k \in DOMAIN store \cup {rid} |-> IF k = rid THEN rec ELSE store[k]]

\* _store.get(response_id)
StoreGet(store, rid) == IF rid \in DOMAIN store THEN store[rid] ELSE NoRecord

\* a lock that lets every thread in
LockFree_always(holder) == TRUE

\* Lock.acquire() goes through when no thread holds the lock
LockFree(holder) == holder = ""

IdleThread ==
    [pc |-> "idle", op |-> "none", chat_response |-> "", action_step_plan |-> "",
     rid |-> 0, arg |-> 0, ret |-> NoRecord, returned_before |-> FALSE,
     unissued_before |-> FALSE]

\* the ids save_trend_response has handed to its callers so far
ReturnedIds == {rs_log[i].response_id : i \in 1..Len(rs_log)}

\* the ids some call of save_trend_response has taken so far
TakenIds ==
    ReturnedIds \cup DOMAIN rs_store
      \cup {rs_thr[t].rid : t \in {u \in Threads : rs_thr[u].pc \in {"incr", "store", "release", "return"}}}

\* ---- the steps of a thread ----
MaxStoreOps == 4
MaxGetId == 3

\* a caller enters save_trend_response(chat_response, action_step_plan)
BeginSave(t) ==
    /\ rs_thr[t].pc = "idle" /\ rs_ops < MaxStoreOps
    /\ \E chat \in {"a", "b"}, plan \in {"", "p"} :
          rs_thr' = [rs_thr EXCEPT ![t] = [IdleThread EXCEPT !.pc = "acquire", !.op = "save",
                                                            !.chat_response = chat,
                                                            !.action_step_plan = plan]]
    /\ rs_ops' = rs_ops + 1
    /\ UNCHANGED <<rs_lock, rs_next_id, rs_store, rs_log, trend_req, exceptResp>>

\* with _lock:
AcquireLock(t) ==
    /\ rs_thr[t].pc = "acquire" /\ LockFree(rs_lock)
    /\ rs_lock' = t
    /\ rs_thr' = [rs_thr EXCEPT ![t].pc = "read_id"]
    /\ UNCHANGED <<rs_next_id, rs_store, rs_log, rs_ops, trend_req, exceptResp>>

\* rid = _next_id
ReadNextId(t) ==
    /\ rs_thr[t].pc = "read_id"
    /\ rs_thr' = [rs_thr EXCEPT ![t].pc = "incr", ![t].rid = rs_next_id]
    /\ UNCHANGED <<rs_lock, rs_next_id, rs_store, rs_log, rs_ops, trend_req, exceptResp>>

\* _next_id += 1
IncrNextId(t) ==
    /\ rs_thr[t].pc = "incr"
    /\ rs_next_id' = rs_next_id + 1
    /\ rs_thr' = [rs_thr EXCEPT ![t].pc = "store"]
    /\ UNCHANGED <<rs_lock, rs_store, rs_log, rs_ops, trend_req, exceptResp>>

\* rec = TrendResponseRecord(...); _store[rid] = rec
StoreRecord(t) ==
    /\ rs_thr[t].pc = "store"
    /\ rs_store' = StorePut(rs_store, rs_thr[t].rid,
                            TrendResponseRecord(rs_thr[t].rid, rs_thr[t].chat_response,
                                                rs_thr[t].action_step_plan))
    /\ rs_thr' = [rs_thr EXCEPT ![t].pc = "release"]
    /\ UNCHANGED <<rs_lock, rs_next_id, rs_log, rs_ops, trend_req, exceptResp>>

\* the with block is left: the lock is released
ReleaseLock(t) ==
    /\ rs_thr[t].pc = "release"
    /\ rs_lock' = ""
    /\ rs_thr' = [rs_thr EXCEPT ![t].pc = "return"]
    /\ UNCHANGED <<rs_next_id, rs_store, rs_log, rs_ops, trend_req, exceptResp>>

\* return rec: the caller has its record; rs_log keeps what each caller gave and got
ReturnSave(t) ==
    /\ rs_thr[t].pc = "return"
    /\ rs_thr' = [rs_thr EXCEPT ![t].pc = "idle",
                                ![t].ret = StoreGet(rs_store, rs_thr[t].rid)]
    /\ rs_log' = Append(rs_log, TrendResponseRecord(rs_thr[t].rid, rs_thr[t].chat_response,
                                                    rs_thr[t].action_step_plan))
    /\ UNCHANGED <<rs_lock, rs_next_id, rs_store, rs_ops, trend_req, exceptResp>>

\* get_trend_response(response_id)
GetResponse(t) ==
    /\ rs_thr[t].pc = "idle" /\ rs_ops < MaxStoreOps
    /\ \E rid \in 1..MaxGetId :
          rs_thr' = [rs_thr EXCEPT ![t] = [IdleThread EXCEPT !.op = "get", !.arg = rid,
                                                            !.ret = StoreGet(rs_store, rid),
                                                            !.returned_before = rid \in ReturnedIds,
                                                            !.unissued_before = rid \notin TakenIds]]
    /\ rs_ops' = rs_ops + 1
    /\ UNCHANGED <<rs_lock, rs_next_id, rs_store, rs_log, trend_req, exceptResp>>

\* ---- GET /trend (backend/app/main.py), the one caller of save_trend_response ----
Requests == {"q1", "q2"}

NoRequest ==
    [pc |-> "none", team_size |-> 1, preferred_genres |-> <<>>, status |-> 0,
     detail |-> "", response_id |-> 0, saved_id |-> 0]

\* the loaders get_trend awaits, in order, and what follows each
TrendLoaders == <<"load_tag_summary", "load_games", "load_tag_combo_clusters">>
AfterLoader(l) ==
    CASE l = "load_tag_summary" -> "load_games"
      [] l = "load_games" -> "load_tag_combo_clusters"
      [] l = "load_tag_combo_clusters" -> "predict"

\* the fields of schemas.TrendOutput, all required, and the keywords get_trend
\* builds it with
TrendOutputFields == {"chat", "response_id"}
TrendOutputKeywords == {"success", "chatName", "chatResponse", "responseId"}

\* pydantic accepts the keywords when every required field is among them
TrendOutputValid == TrendOutputFields \subseteq TrendOutputKeywords

\* the request ends with an HTTP status
Responded(q, status, detail) ==
    [trend_req EXCEPT ![q].pc = "done", ![q].status = status, ![q].detail = detail]

\* await asyncio.to_thread(loader): the table, or FileNotFoundError -> 500
TrendLoad(q) ==
    /\ trend_req[q].pc \in Range(TrendLoaders)
    /\ LET l == trend_req[q].pc
       IN  IF ~cache[l].set /\ ~files[LoaderArtifact(l)]
             THEN /\ trend_req' = Responded(q, 500, "FileNotFoundError")
                  /\ UNCHANGED cache
             ELSE /\ trend_req' = [trend_req EXCEPT ![q].pc = AfterLoader(l)]
                  /\ cache' = [cache EXCEPT
                                  ![l] = IF cache[l].set THEN cache[l]
                                         ELSE [set |-> TRUE, value |-> "as_read"]]
    /\ UNCHANGED <<rs_lock, rs_next_id, rs_store, rs_thr, rs_log, rs_ops>>
    /\ UNCHANGED <<files, held, last_op, uncalled_since_clear, exceptRespStore>>

\* asyncio.wait_for gives up while the request waits for a loader: 504
TrendTimeout(q) ==
    /\ trend_req[q].pc \in Range(TrendLoaders)
    /\ trend_req' = Responded(q, 504, "Trend computation timed out")
    /\ UNCHANGED <<rs_lock, rs_next_id, rs_store, rs_thr, rs_log, rs_ops>>
    /\ UNCHANGED <<storeVars, exceptRespStore>>

\* lines 175-303: the prediction, and behind it the analytics and the LLM call
\* (which may time out or fail), save_trend_response and TrendOutput(...)
TrendPredict(q) ==
    /\ trend_req[q].pc = "predict"
    /\ LET out == mock_predict_tags(<<>>, trend_req[q].preferred_genres,
                                    trend_req[q].team_size, 0, 0, 10)
           rid == rs_next_id
       IN  IF out.raised # ""
             THEN /\ trend_req' = Responded(q, 500, "Internal error")
                  /\ UNCHANGED <<rs_next_id, rs_store>>
             ELSE \E rest \in {"timeout", "llm_error", "ok"} :
                    IF rest = "timeout"
                      THEN /\ trend_req' = Responded(q, 504, "Trend computation timed out")
                           /\ UNCHANGED <<rs_next_id, rs_store>>
                    ELSE IF rest = "llm_error"
                      THEN /\ trend_req' = Responded(q, 500, "Internal error")
                           /\ UNCHANGED <<rs_next_id, rs_store>>
                    ELSE /\ rs_next_id' = rid + 1
                         /\ rs_store' = StorePut(rs_store, rid, TrendResponseRecord(rid, "a", ""))
                         /\ trend_req' =
                              IF TrendOutputValid
                                THEN [Responded(q, 200, "") EXCEPT ![q].response_id = rid,
                                                                   ![q].saved_id = rid]
                                ELSE [Responded(q, 500, "Internal error") EXCEPT
                                         ![q].saved_id = rid]
    /\ UNCHANGED <<rs_lock, rs_thr, rs_log, rs_ops>>
    /\ UNCHANGED <<storeVars, exceptRespStore>>

\* ---- the states that are explored ----
RespInit ==
    /\ rs_lock = "" /\ rs_next_id = 1 /\ rs_store = EmptyStore
    /\ rs_thr = [t \in Threads |-> IdleThread]
    /\ rs_log = <<>> /\ rs_ops = 0
    /\ trend_req = [q \in Requests |-> NoRequest]

RespIdle ==
    /\ rs_lock = "" /\ rs_next_id = 1 /\ rs_store = EmptyStore
    /\ rs_thr = [t \in Threads |-> IdleThread]
    /\ rs_log = <<>> /\ rs_ops = 0
    /\ trend_req = [q \in Requests |-> NoRequest]

\* two requests on a server whose data directory holds some of the artifacts
TrendInit ==
    /\ rs_lock = "" /\ rs_next_id = 1 /\ rs_store = EmptyStore
    /\ rs_thr = [t \in Threads |-> IdleThread]
    /\ rs_log = <<>> /\ rs_ops = 0
    /\ trend_req \in [Requests ->
          {[NoRequest EXCEPT !.pc = "load_tag_summary", !.team_size = ts,
                             !.preferred_genres = pg] :
              ts \in {1, 4}, pg \in {<<>>, << <<"R", "P", "G">> >>}}]
    /\ files \in {f \in [Artifacts -> BOOLEAN] :
                     \A a \in Artifacts \ {"tag_summary", "games", "tag_combo_clusters"} : f[a]}
    /\ cache = [l \in Loaders |-> NoCache]
    /\ held = NoHandle
    /\ last_op = NoOp
    /\ uncalled_since_clear = {}

\* ---- what the claims speak of ----
\* no call of save_trend_response is under way
NoSaveUnderWay == \A t \in Threads : rs_thr[t].pc = "idle"

\* the record the save that returned id rid was given
GivenRecord(rid) == rs_log[CHOOSE i \in 1..Len(rs_log) : rs_log[i].response_id = rid]

MaxRaceOps == 3

\* a thread outside any call of the storage layer
IdleCaller ==
    [pc |-> "idle", op |-> "none", loader |-> "", local |-> "", first |-> FALSE,
     cleared_under |-> FALSE, status |-> "none", ret |-> ""]

\* the caches clear_cache() assigns, in the order of its three statements
ClearOrder == <<"load_tag_summary", "load_tag_month_stats", "load_tag_complexity">>

\* the operand of .copy() in the return statement: the global, read again
ReturnOperand(t, l) == cache[l]

\* a thread enters loader l
BeginLoad(t) ==
    /\ rc_thr[t].pc \in {"idle", "done"}
    /\ rc_ops < MaxRaceOps
    /\ \E l \in Loaders :
          rc_thr' = [rc_thr EXCEPT ![t] = [IdleCaller EXCEPT !.pc = "test", !.op = "load",
                                                             !.loader = l]]
    /\ rc_ops' = rc_ops + 1
    /\ UNCHANGED storeVars
    /\ UNCHANGED exceptRaceStore

\* a thread enters clear_cache()
BeginClear(t) ==
    /\ rc_thr[t].pc \in {"idle", "done"}
    /\ rc_ops < MaxRaceOps
    /\ rc_thr' = [rc_thr EXCEPT ![t] = [IdleCaller EXCEPT !.pc = "clear1", !.op = "clear"]]
    /\ rc_ops' = rc_ops + 1
    /\ UNCHANGED storeVars
    /\ UNCHANGED exceptRaceStore

\* if _cache is None:
TestCache(t) ==
    /\ rc_thr[t].pc = "test"
    /\ rc_thr' = [rc_thr EXCEPT ![t].pc = IF cache[rc_thr[t].loader].set
                                            THEN "return" ELSE "exists",
                                ![t].first = ~cache[rc_thr[t].loader].set]
    /\ UNCHANGED <<storeVars, rc_ops>>
    /\ UNCHANGED exceptRaceStore

\* if not path.exists(): raise FileNotFoundError(...)
CheckExists(t) ==
    /\ rc_thr[t].pc = "exists"
    /\ rc_thr' = IF files[LoaderArtifact(rc_thr[t].loader)]
                   THEN [rc_thr EXCEPT ![t].pc = "read"]
                   ELSE [rc_thr EXCEPT ![t].pc = "done",
                                       ![t].status = "FileNotFoundError"]
    /\ UNCHANGED <<storeVars, rc_ops>>
    /\ UNCHANGED exceptRaceStore

\* pd.read_parquet(path) / json.load(f): the right-hand side of the assignment
ReadArtifact(t) ==
    /\ rc_thr[t].pc = "read"
    /\ rc_thr' = [rc_thr EXCEPT ![t].pc = "assign", ![t].local = "as_read"]
    /\ UNCHANGED <<storeVars, rc_ops>>
    /\ UNCHANGED exceptRaceStore

\* _cache = <what was read>
AssignCache(t) ==
    /\ rc_thr[t].pc = "assign"
    /\ cache' = [cache EXCEPT ![rc_thr[t].loader] =
                                 [set |-> TRUE, value |-> rc_thr[t].local]]
    /\ rc_thr' = [rc_thr EXCEPT ![t].pc = "return"]
    /\ UNCHANGED <<files, held, last_op, uncalled_since_clear, rc_ops>>
    /\ UNCHANGED exceptRaceStore

\* return _cache.copy()   (return _cache in load_market_archetypes): None has no
\* attribute copy
ReturnCopy(t) ==
    LET l == rc_thr[t].loader
        operand == ReturnOperand(t, l)
    IN  /\ rc_thr[t].pc = "return"
        /\ rc_thr' = IF operand.set \/ ReturnsCache(l)
                       THEN [rc_thr EXCEPT ![t].pc = "done", ![t].status = "ok",
                                           ![t].ret = IF operand.set THEN operand.value
                                                                     ELSE "None"]
                       ELSE [rc_thr EXCEPT ![t].pc = "done",
                                           ![t].status = "AttributeError"]
        /\ UNCHANGED <<storeVars, rc_ops>>
        /\ UNCHANGED exceptRaceStore

\* one of the three assignments of clear_cache(); a loader call that is past its
\* test of the cache and before its return has the cache cleared under it
ClearStep(t) ==
    LET n == CASE rc_thr[t].pc = "clear1" -> 1
               [] rc_thr[t].pc = "clear2" -> 2
               [] OTHER -> 3
        l == ClearOrder[n]
        under(u) == /\ u # t /\ rc_thr[u].op = "load" /\ rc_thr[u].loader = l
                    /\ rc_thr[u].pc \in {"exists", "read", "assign", "return"}
    IN  /\ rc_thr[t].pc \in {"clear1", "clear2", "clear3"}
        /\ cache' = [cache EXCEPT ![l] = NoCache]
        /\ rc_thr' = [u \in Threads |->
                        IF u = t
                          THEN [rc_thr[t] EXCEPT !.pc = IF n = 1 THEN "clear2"
                                                         ELSE IF n = 2 THEN "clear3"
                                                         ELSE "done",
                                                 !.status = IF n = 3 THEN "ok" ELSE "none"]
                          ELSE IF under(u) THEN [rc_thr[u] EXCEPT !.cleared_under = TRUE]
                          ELSE rc_thr[u]]
        /\ UNCHANGED <<files, held, last_op, uncalled_since_clear, rc_ops>>
        /\ UNCHANGED exceptRaceStore

\* ---- the states that are explored ----
\* the server with every artifact built, no cache filled, two threads
RaceInit ==
    /\ StoreInit
    /\ rc_thr = [t \in Threads |-> IdleCaller]
    /\ rc_ops = 0

RaceIdle ==
    /\ rc_thr = [t \in Threads |-> IdleCaller]
    /\ rc_ops = 0

\* ---- what the claims speak of ----
\* C30: with the artifact on disk, a cached loader that runs in one thread while
\* clear_cache() or another first load runs in a second thread always returns the
\* contents of the table: no interleaving makes it fail or return an empty value,
\* and two concurrent first loads return equal contents.
C30_ConcurrentLoadReturnsTable ==
    /\ \A t \in Threads :
          (rc_thr[t].op = "load" /\ rc_thr[t].pc = "done") =>
              rc_thr[t].status = "ok" /\ rc_thr[t].ret = "as_read"
    /\ \A t, u \in Threads :
          ( /\ rc_thr[t].op = "load" /\ rc_thr[t].pc = "done" /\ rc_thr[t].first
            /\ rc_thr[u].op = "load" /\ rc_thr[u].pc = "done" /\ rc_thr[u].first
            /\ rc_thr[t].loader = rc_thr[u].loader )
              => rc_thr[t].ret = rc_thr[u].ret

\* what holds: a loader call ends in the contents of the table unless a
\* clear_cache() emptied its cache between its test of the cache and its return,
\* and two concurrent first loads that both return, return equal contents
LoadReturnsTableUnlessCleared ==
    /\ \A t \in Threads :
          (rc_thr[t].op = "load" /\ rc_thr[t].pc = "done" /\ ~rc_thr[t].cleared_under) =>
              rc_thr[t].status = "ok" /\ rc_thr[t].ret = "as_read"
    /\ \A t, u \in Threads :
          ( /\ rc_thr[t].op = "load" /\ rc_thr[t].status = "ok" /\ rc_thr[t].first
            /\ rc_thr[u].op = "load" /\ rc_thr[u].status = "ok" /\ rc_thr[u].first
            /\ rc_thr[t].loader = rc_thr[u].loader )
              => rc_thr[t].ret = rc_thr[u].ret

\* two threads were both in the first load of the tag summary, each read the file,
\* and each returned its contents
LoadReturnsTableUnlessCleared_Witness ==
    /\ \A t \in Threads :
          /\ rc_thr[t].op = "load" /\ rc_thr[t].loader = "load_tag_summary"
          /\ rc_thr[t].pc = "done" /\ rc_thr[t].first /\ rc_thr[t].local = "as_read"
          /\ rc_thr[t].status = "ok" /\ rc_thr[t].ret = "as_read"
          /\ ~rc_thr[t].cleared_under

(***************************************************************************)
(* Specifications                                                          *)
(***************************************************************************)
\* calls of compute_complexity_penalty
PenaltyNext == CallPenalty
InitPenalty ==
    /\ PenaltyInit
    /\ ScoreIdle /\ RecIdle /\ KeyIdle /\ AggIdle /\ ArchIdle
    /\ DrillIdle /\ ReasonsIdle /\ StoreIdle /\ IngestIdle /\ ClusterIdle
    /\ TagsIdle /\ ScanIdle /\ MockIdle /\ RespIdle /\ RaceIdle
SpecPenalty == InitPenalty /\ [][PenaltyNext]_vars

\* calls of compute_score
ScoreNext == CallScore
InitScore ==
    /\ ScoreInit
    /\ PenaltyIdle /\ RecIdle /\ KeyIdle /\ AggIdle /\ ArchIdle
    /\ DrillIdle /\ ReasonsIdle /\ StoreIdle /\ IngestIdle /\ ClusterIdle
    /\ TagsIdle /\ ScanIdle /\ MockIdle /\ RespIdle /\ RaceIdle
SpecScore == InitScore /\ [][ScoreNext]_vars

\* calls of recommend_tags
RecNext == CallRecommend
InitRecommend ==
    /\ RecInit
    /\ PenaltyIdle /\ ScoreIdle /\ KeyIdle /\ AggIdle /\ ArchIdle
    /\ DrillIdle /\ ReasonsIdle /\ StoreIdle /\ IngestIdle /\ ClusterIdle
    /\ TagsIdle /\ ScanIdle /\ MockIdle /\ RespIdle /\ RaceIdle
SpecRecommend == InitRecommend /\ [][RecNext]_vars

\* scans of pairs of titles
KeyNext == ScanTitlePair
InitKeys ==
    /\ KeyInit
    /\ PenaltyIdle /\ ScoreIdle /\ RecIdle /\ AggIdle /\ ArchIdle
    /\ DrillIdle /\ ReasonsIdle /\ StoreIdle /\ IngestIdle /\ ClusterIdle
    /\ TagsIdle /\ ScanIdle /\ MockIdle /\ RespIdle /\ RaceIdle
SpecKeys == InitKeys /\ [][KeyNext]_vars

\* runs of build_tag_combo_summary.py
AggNext == ScanRow \/ EndScan \/ Interrupt \/ BuildSummary
InitAgg ==
    /\ AggInit
    /\ PenaltyIdle /\ ScoreIdle /\ RecIdle /\ KeyIdle /\ ArchIdle
    /\ DrillIdle /\ ReasonsIdle /\ StoreIdle /\ IngestIdle /\ ClusterIdle
    /\ TagsIdle /\ ScanIdle /\ MockIdle /\ RespIdle /\ RaceIdle
SpecAgg == InitAgg /\ [][AggNext]_vars

\* calls of GET /market-archetypes
ArchNext == GetMarketArchetypes
InitArch ==
    /\ ArchInit
    /\ PenaltyIdle /\ ScoreIdle /\ RecIdle /\ KeyIdle /\ AggIdle
    /\ DrillIdle /\ ReasonsIdle /\ StoreIdle /\ IngestIdle /\ ClusterIdle
    /\ TagsIdle /\ ScanIdle /\ MockIdle /\ RespIdle /\ RaceIdle
SpecArch == InitArch /\ [][ArchNext]_vars

\* calls of GET /market-archetypes/{cluster_id}
DrillNext == GetMarketArchetype
InitDrill ==
    /\ DrillInit
    /\ PenaltyIdle /\ ScoreIdle /\ RecIdle /\ KeyIdle /\ AggIdle
    /\ ArchIdle /\ ReasonsIdle /\ StoreIdle /\ IngestIdle /\ ClusterIdle
    /\ TagsIdle /\ ScanIdle /\ MockIdle /\ RespIdle /\ RaceIdle
SpecDrill == InitDrill /\ [][DrillNext]_vars

\* calls of generate_reasons
ReasonsNext == CallReasons
InitReasons ==
    /\ ReasonsInit
    /\ PenaltyIdle /\ ScoreIdle /\ RecIdle /\ KeyIdle /\ AggIdle
    /\ ArchIdle /\ DrillIdle /\ StoreIdle /\ IngestIdle /\ ClusterIdle
    /\ TagsIdle /\ ScanIdle /\ MockIdle /\ RespIdle /\ RaceIdle
SpecReasons == InitReasons /\ [][ReasonsNext]_vars

\* loader calls of concurrent callers on a server with every artifact built
StoreNext == (\E l \in Loaders, keep \in BOOLEAN : Load(l, keep)) \/ Mutate \/ ClearCache
InitStore ==
    /\ StoreInit
    /\ PenaltyIdle /\ ScoreIdle /\ RecIdle /\ KeyIdle /\ AggIdle
    /\ ArchIdle /\ DrillIdle /\ ReasonsIdle /\ IngestIdle /\ ClusterIdle
    /\ TagsIdle /\ ScanIdle /\ MockIdle /\ RespIdle /\ RaceIdle
SpecStore == InitStore /\ [][StoreNext]_vars

\* pipeline stage runs and loader calls, from an empty data directory
PipelineNext == (\E s \in Stages : RunStage(s)) \/ (\E l \in Loaders : Load(l, FALSE))
InitPipeline ==
    /\ PipelineInit
    /\ PenaltyIdle /\ ScoreIdle /\ RecIdle /\ KeyIdle /\ AggIdle
    /\ ArchIdle /\ DrillIdle /\ ReasonsIdle /\ IngestIdle /\ ClusterIdle
    /\ TagsIdle /\ ScanIdle /\ MockIdle /\ RespIdle /\ RaceIdle
SpecPipeline == InitPipeline /\ [][PipelineNext]_vars

\* runs of ingest_csv_to_parquet.py
IngestNext == RunIngest
InitIngest ==
    /\ IngestInit
    /\ PenaltyIdle /\ ScoreIdle /\ RecIdle /\ KeyIdle /\ AggIdle
    /\ ArchIdle /\ DrillIdle /\ ReasonsIdle /\ StoreIdle /\ ClusterIdle
    /\ TagsIdle /\ ScanIdle /\ MockIdle /\ RespIdle /\ RaceIdle
SpecIngest == InitIngest /\ [][IngestNext]_vars

\* runs of cluster_tag_combinations.py
ClusterNext == RunClusterer
InitCluster ==
    /\ ClusterInit
    /\ PenaltyIdle /\ ScoreIdle /\ RecIdle /\ KeyIdle /\ AggIdle
    /\ ArchIdle /\ DrillIdle /\ ReasonsIdle /\ StoreIdle /\ IngestIdle
    /\ TagsIdle /\ ScanIdle /\ MockIdle /\ RespIdle /\ RaceIdle
SpecCluster == InitCluster /\ [][ClusterNext]_vars

\* calls of mock_predict_tags
MockNext == CallMock
InitMock ==
    /\ MockInit
    /\ PenaltyIdle /\ ScoreIdle /\ RecIdle /\ KeyIdle /\ AggIdle
    /\ ArchIdle /\ DrillIdle /\ ReasonsIdle /\ StoreIdle /\ IngestIdle
    /\ ClusterIdle /\ TagsIdle /\ ScanIdle /\ RespIdle /\ RaceIdle
SpecMock == InitMock /\ [][MockNext]_vars

\* titles ingested from the CSV and scanned by build_tag_combo_summary.py
TagsNext == IngestAndScanTitle
InitTags ==
    /\ TagsInit
    /\ PenaltyIdle /\ ScoreIdle /\ RecIdle /\ KeyIdle /\ AggIdle
    /\ ArchIdle /\ DrillIdle /\ ReasonsIdle /\ StoreIdle /\ IngestIdle
    /\ ClusterIdle /\ ScanIdle /\ MockIdle /\ RespIdle /\ RaceIdle
SpecTags == InitTags /\ [][TagsNext]_vars

\* single titles scanned by build_tag_combo_summary.py
ScanNext == ScanTitle
InitScan ==
    /\ ScanInit
    /\ PenaltyIdle /\ ScoreIdle /\ RecIdle /\ KeyIdle /\ AggIdle
    /\ ArchIdle /\ DrillIdle /\ ReasonsIdle /\ StoreIdle /\ IngestIdle
    /\ ClusterIdle /\ TagsIdle /\ MockIdle /\ RespIdle /\ RaceIdle
SpecScan == InitScan /\ [][ScanNext]_vars

\* threads that call save_trend_response and get_trend_response
RespNext == \E t \in Threads : BeginSave(t) \/ AcquireLock(t) \/ ReadNextId(t) \/ IncrNextId(t) \/ StoreRecord(t) \/ ReleaseLock(t) \/ ReturnSave(t) \/ GetResponse(t)
InitResp ==
    /\ RespInit
    /\ PenaltyIdle /\ ScoreIdle /\ RecIdle /\ KeyIdle /\ AggIdle
    /\ ArchIdle /\ DrillIdle /\ ReasonsIdle /\ StoreIdle /\ IngestIdle
    /\ ClusterIdle /\ TagsIdle /\ ScanIdle /\ MockIdle /\ RaceIdle
SpecResp == InitResp /\ [][RespNext]_vars

\* concurrent GET /trend requests
TrendNext == \E q \in Requests : TrendLoad(q) \/ TrendTimeout(q) \/ TrendPredict(q)
InitTrend ==
    /\ TrendInit
    /\ PenaltyIdle /\ ScoreIdle /\ RecIdle /\ KeyIdle /\ AggIdle
    /\ ArchIdle /\ DrillIdle /\ ReasonsIdle /\ IngestIdle /\ ClusterIdle
    /\ TagsIdle /\ ScanIdle /\ MockIdle /\ RaceIdle
SpecTrend == InitTrend /\ [][TrendNext]_vars

\* threads inside the cached loaders and clear_cache()
RaceNext == \E t \in Threads : BeginLoad(t) \/ BeginClear(t) \/ TestCache(t) \/ CheckExists(t) \/ ReadArtifact(t) \/ AssignCache(t) \/ ReturnCopy(t) \/ ClearStep(t)
InitRace ==
    /\ RaceInit
    /\ PenaltyIdle /\ ScoreIdle /\ RecIdle /\ KeyIdle /\ AggIdle
    /\ ArchIdle /\ DrillIdle /\ ReasonsIdle /\ IngestIdle /\ ClusterIdle
    /\ TagsIdle /\ ScanIdle /\ MockIdle /\ RespIdle
SpecRace == InitRace /\ [][RaceNext]_vars

====
